---- MODULE Spec2Model ----
(***************************************************************************)
(* A model of the chaincraft-rust replicated-state engine:                  *)
(*   - TendermintObject  (src/src/examples/tendermint.rs)                   *)
(*   - SimpleSharedNumber and ApplicationObjectRegistry                     *)
(*     (src/src/shared_object.rs)                                           *)
(*   - ChatroomObject (src/src/examples/chatroom.rs)                        *)
(*   - MemoryStorage (src/src/storage.rs), ChainCraftNode (src/src/node.rs) *)
(*   - MessageType and SharedMessage (src/src/shared.rs)                    *)
(*   - RandomnessBeaconObject (src/src/examples/randomness_beacon.rs)       *)
(* Each variable holds one object as a record of the object's fields.       *)
(* Every method is a pure operator from the object before the call to the   *)
(* object after it (with the value returned), and an action applies it.     *)
(*                                                                          *)
(* Option<T> is modelled as a sequence: None is <<>>, Some(x) is <<x>>.     *)
(* A HashMap is a function on the set of its keys.  The objects' own        *)
(* timestamps are left out: no method reads them.  A String that is         *)
(* concatenated or compared with a token is a sequence of characters.       *)
(*                                                                          *)
(* A u64 is a number below 2^WordBits: the sums and products of             *)
(* total_voting_power / has_majority / can_commit wrap modulo 2^WordBits,   *)
(* as a build without overflow checks computes them, and where a build     *)
(* with overflow checks panics, can_commit has the outcome Panic.  The      *)
(* number of a SimpleSharedNumber is an i64 of the same width.  Only        *)
(* SpecWord and SpecSum use numbers large enough to overflow.               *)
(***************************************************************************)
EXTENDS Integers, Sequences, FiniteSets, TLC

VARIABLES tm, num, registry, node, sm, beacon

vars == <<tm, num, registry, node, sm, beacon>>

(***************************************************************************)
(* Bounds of the model.                                                     *)
(***************************************************************************)
\* the model follows a TendermintObject while the messages in its log plus
\* the blocks committed on top of genesis are at most MaxWork
MaxWork == 3
\* has_majority is tried on the tallies 50*k and 50*k + 1 for k in 0..MaxTallyStep
MaxTallyStep == 9
\* the number of bits of a u64 in the model (64 in the program)
WordBits == 16
\* the integer payloads dispatched to a SimpleSharedNumber are -MaxPayload..MaxPayload
MaxPayload == 2
\* the most messages stored by a SimpleSharedNumber
MaxNumberMessages == 3
\* the most times one payload is dispatched again
MaxRepeats == 3
\* the most messages stored in one chatroom of a registered ChatroomObject
MaxRoomMessages == 2
\* the most messages the tasks sharing a node create
MaxDispatches == 3
\* the most ids in one list of the type index
MaxTypeList == 3
\* the most times one message is signed
MaxSignings == 2
\* the most calls made on one MemoryStorage
MaxStorageCalls == 4
\* the most VRF proofs a beacon holds, pending and in its finalized rounds
MaxProofs == 3

(***************************************************************************)
(* Option<T>                                                                *)
(***************************************************************************)
None == <<>>

Some(x) == <<x>>

(***************************************************************************)
(* Input alphabets.                                                         *)
(***************************************************************************)
\* validator addresses (test_consensus_round_completion uses three)
Addresses == {"v1", "v2", "v3"}

\* block hashes carried by proposals and votes
Hashes == {"H1", "H2"}

\* voting powers (test_validator_management uses 100, 150, 200)
VotingPowers == {100, 150}

\* the signature the validator's key produces over the message it is in
SigOf(validator) == <<"sig", validator>>

\* a signature string that does not verify against the validator's key
Forged == <<"sig", "forged">>

\* ECDSAVerifier::verify of a message's signature against the named validator
Verifies(validator, signature) == signature = SigOf(validator)

PublicKeyOf(address) == <<"pk", address>>

\* TendermintMessageType, one record shape for the five variants; a field a
\* variant does not have holds a fixed default
Msg(type, height, round, block_hash, validator, signature, validators) ==
    [type |-> type, height |-> height, round |-> round, block_hash |-> block_hash,
     validator |-> validator, signature |-> signature, validators |-> validators]

(***************************************************************************)
(* TendermintObject                                                         *)
(***************************************************************************)
\* struct ValidatorInfo
ValidatorInfo(address, public_key, voting_power, active) ==
    [address |-> address, public_key |-> public_key,
     voting_power |-> voting_power, active |-> active]

\* struct Vote (timestamp left out)
Vote(validator, block_hash, signature) ==
    [validator |-> validator, block_hash |-> block_hash, signature |-> signature]

\* struct Block (timestamp and the always-empty transactions left out);
\* commit_signatures is the multiset of the signatures in the Vec, whose order
\* is the iteration order of a HashMap
Block(height, hash, previous_hash, proposer, commit_signatures) ==
    [height |-> height, hash |-> hash, previous_hash |-> previous_hash,
     proposer |-> proposer, commit_signatures |-> commit_signatures]

my_validator_address == "me"

genesis_block == Block(0, "genesis_hash", "", "genesis", <<>>)

\* TendermintObject::new
TendermintNew ==
    [validators |-> <<>>,
     blocks |-> <<genesis_block>>,
     current_height |-> 1,
     current_round |-> 0,
     state |-> "Propose",
     proposals |-> <<>>,
     prevotes |-> <<>>,
     precommits |-> <<>>,
     locked_block |-> None,
     locked_round |-> None,
     messages |-> <<>>]

\* HashMap::insert
MapInsert(map, key, value) ==
    [k \in DOMAIN map \cup {key} |-> IF k = key THEN value ELSE map[k]]

\* retain keeping every entry
RetainEverything(table, height) == table

\* table.retain(|&(h, _), _| h >= height)
RetainFromHeight(table, height) ==
    [k \in {x \in DOMAIN table : x[1] >= height} |-> table[k]]

\* add_validator leaving an address it already holds as it is
add_validator_insert_only(s, address, public_key, voting_power) ==
    IF address \in DOMAIN s.validators THEN s
    ELSE [s EXCEPT !.validators =
            MapInsert(@, address, ValidatorInfo(address, public_key, voting_power, TRUE))]

\* TendermintObject::add_validator
add_validator(s, address, public_key, voting_power) ==
    [s EXCEPT !.validators =
        MapInsert(@, address, ValidatorInfo(address, public_key, voting_power, TRUE))]

\* the number of values of a u64
U64 == 2 ^ WordBits

\* the u64 result of arithmetic whose mathematical value is n, in a build
\* without overflow checks
wrapping(n) == n % U64

\* arithmetic whose mathematical value is n overflows a u64: a build with
\* overflow checks panics
overflows(n) == n >= U64

\* the unwinding of a panic, where an Option<String> is returned otherwise
Panic == <<"panic", "arithmetic overflow">>

RECURSIVE SumPower(_, _)
\* .map(|v| v.voting_power).sum() over the validators named in `addrs`
SumPower(validators, addrs) ==
    IF addrs = {} THEN 0
    ELSE LET a == CHOOSE x \in addrs : TRUE
         IN validators[a].voting_power + SumPower(validators, addrs \ {a})

\* TendermintObject::total_voting_power
total_voting_power(s) ==
    wrapping(SumPower(s.validators, {a \in DOMAIN s.validators : s.validators[a].active}))

\* has_majority with >= for >: exactly two thirds would be enough
has_majority_at_least(s, voting_power) ==
    voting_power * 3 >= total_voting_power(s) * 2

\* has_majority asking for more than half
has_majority_simple(s, voting_power) ==
    voting_power * 2 > total_voting_power(s)

\* TendermintObject::has_majority
has_majority(s, voting_power) ==
    wrapping(voting_power * 3) > wrapping(total_voting_power(s) * 2)

\* the key (height, round) of the proposal and vote tables
Key(height, round) == <<height, round>>

CurrentKey(s) == Key(s.current_height, s.current_round)

\* TendermintObject::process_proposal; ok is the bool inside Ok(..)
process_proposal(s, m) ==
    IF m.type = "Proposal" /\ m.height = s.current_height /\ m.round = s.current_round
    THEN [st |-> [s EXCEPT !.proposals = MapInsert(@, Key(m.height, m.round), m),
                          !.messages = Append(@, m)],
          ok |-> TRUE]
    ELSE [st |-> s, ok |-> FALSE]

\* an insert that keeps the vote a validator already has
InsertVote_keep_first(table, m) ==
    LET key == Key(m.height, m.round)
        old == IF key \in DOMAIN table THEN table[key] ELSE <<>>
    IN IF m.validator \in DOMAIN old THEN table
       ELSE MapInsert(table, key,
                      MapInsert(old, m.validator,
                                Vote(m.validator, m.block_hash, m.signature)))

\* self.<table>.entry((height, round)).or_default().insert(validator, vote)
InsertVote(table, m) ==
    LET key == Key(m.height, m.round)
        old == IF key \in DOMAIN table THEN table[key] ELSE <<>>
    IN MapInsert(table, key,
                 MapInsert(old, m.validator, Vote(m.validator, m.block_hash, m.signature)))

\* process_prevote recording the vote in the precommit table
process_prevote_as_precommit(s, m) ==
    IF m.type = "Prevote" /\ m.height = s.current_height /\ m.round = s.current_round
    THEN [st |-> [s EXCEPT !.precommits = InsertVote(@, m),
                          !.messages = Append(@, m)],
          ok |-> TRUE]
    ELSE [st |-> s, ok |-> FALSE]

\* TendermintObject::process_prevote
process_prevote(s, m) ==
    IF m.type = "Prevote" /\ m.height = s.current_height /\ m.round = s.current_round
    THEN [st |-> [s EXCEPT !.prevotes = InsertVote(@, m),
                          !.messages = Append(@, m)],
          ok |-> TRUE]
    ELSE [st |-> s, ok |-> FALSE]

\* process_precommit comparing the height alone
process_precommit_any_round(s, m) ==
    IF m.type = "Precommit" /\ m.height = s.current_height
    THEN [st |-> [s EXCEPT !.precommits = InsertVote(@, m),
                          !.messages = Append(@, m)],
          ok |-> TRUE]
    ELSE [st |-> s, ok |-> FALSE]

\* TendermintObject::process_precommit
process_precommit(s, m) ==
    IF m.type = "Precommit" /\ m.height = s.current_height /\ m.round = s.current_round
    THEN [st |-> [s EXCEPT !.precommits = InsertVote(@, m),
                          !.messages = Append(@, m)],
          ok |-> TRUE]
    ELSE [st |-> s, ok |-> FALSE]

\* vote_counts adding the nil votes to every candidate's tally
vote_counts_nil_for_all(s, votes) ==
    LET counted == {v \in DOMAIN votes : votes[v].validator \in DOMAIN s.validators}
    IN [k \in {votes[v].block_hash : v \in counted} |->
           SumPower(s.validators,
                    {votes[v].validator :
                        v \in {x \in counted : votes[x].block_hash \in {k, None}}})]

\* the vote_counts map can_commit builds: the voting power of the registered
\* validators behind each Option<block_hash> among `votes`
vote_counts(s, votes) ==
    LET counted == {v \in DOMAIN votes : votes[v].validator \in DOMAIN s.validators}
    IN [k \in {votes[v].block_hash : v \in counted} |->
           wrapping(SumPower(s.validators,
                             {votes[v].validator :
                                 v \in {x \in counted : votes[x].block_hash = k}}))]

\* a build with overflow checks can panic in can_commit: a tally `+=`
\* overflows, or has_majority is called for a block hash and its
\* voting_power * 3, the sum of total_voting_power() or that sum * 2 overflows
can_commit_panics(s, votes) ==
    LET counted == {v \in DOMAIN votes : votes[v].validator \in DOMAIN s.validators}
        sum(k) == SumPower(s.validators,
                           {votes[v].validator :
                               v \in {x \in counted : votes[x].block_hash = k}})
        keys == {votes[v].block_hash : v \in counted}
        total == SumPower(s.validators,
                          {a \in DOMAIN s.validators : s.validators[a].active})
    IN \/ \E k \in keys : overflows(sum(k))
       \/ /\ keys \ {None} # {}
          /\ overflows(total) \/ overflows(total * 2)
       \/ \E k \in keys \ {None} : overflows(sum(k) * 3)

\* TendermintObject::can_commit: the set of the values the call can return.
\* vote_counts is a HashMap, iterated in an unspecified order, and the first
\* block hash found with a majority is returned; Panic is among the outcomes
\* when u64 arithmetic overflows.
can_commit(s) ==
    IF CurrentKey(s) \notin DOMAIN s.precommits THEN {None}
    ELSE LET counts == vote_counts(s, s.precommits[CurrentKey(s)])
             winners == {k \in DOMAIN counts : k # None /\ has_majority(s, counts[k])}
         IN (IF winners = {} THEN {None} ELSE winners)
                \cup (IF can_commit_panics(s, s.precommits[CurrentKey(s)])
                      THEN {Panic} ELSE {})

\* votes.values().map(|v| v.signature.clone()).collect(), as a multiset
Signatures(votes) ==
    [sig \in {votes[v].signature : v \in DOMAIN votes} |->
        Cardinality({v \in DOMAIN votes : votes[v].signature = sig})]

Last(seq) == seq[Len(seq)]

\* commit_block without the assignment current_round = 0
commit_block_keep_round(s, block_hash) ==
    LET block == Block(s.current_height, block_hash, Last(s.blocks).hash,
                       my_validator_address,
                       IF CurrentKey(s) \in DOMAIN s.precommits
                       THEN Signatures(s.precommits[CurrentKey(s)]) ELSE <<>>)
        h == s.current_height + 1
    IN [st |-> [s EXCEPT !.blocks = Append(@, block),
                         !.current_height = h,
                         !.state = "Propose",
                         !.locked_block = None,
                         !.locked_round = None,
                         !.prevotes = RetainFromHeight(@, h),
                         !.precommits = RetainFromHeight(@, h),
                         !.proposals = RetainFromHeight(@, h)],
        val |-> "Ok"]

\* commit_block linking every block to the genesis block
commit_block_on_genesis(s, block_hash) ==
    LET block == Block(s.current_height, block_hash, s.blocks[1].hash,
                       my_validator_address,
                       IF CurrentKey(s) \in DOMAIN s.precommits
                       THEN Signatures(s.precommits[CurrentKey(s)]) ELSE <<>>)
        h == s.current_height + 1
    IN [st |-> [s EXCEPT !.blocks = Append(@, block),
                         !.current_height = h,
                         !.current_round = 0,
                         !.state = "Propose",
                         !.locked_block = None,
                         !.locked_round = None,
                         !.prevotes = RetainFromHeight(@, h),
                         !.precommits = RetainFromHeight(@, h),
                         !.proposals = RetainFromHeight(@, h)],
        val |-> "Ok"]

\* TendermintObject::commit_block; val is "Ok" or "Err"
commit_block(s, block_hash) ==
    LET block == Block(s.current_height, block_hash, Last(s.blocks).hash,
                       my_validator_address,
                       IF CurrentKey(s) \in DOMAIN s.precommits
                       THEN Signatures(s.precommits[CurrentKey(s)]) ELSE <<>>)
        h == s.current_height + 1
    IN [st |-> [s EXCEPT !.blocks = Append(@, block),
                         !.current_height = h,
                         !.current_round = 0,
                         !.state = "Propose",
                         !.locked_block = None,
                         !.locked_round = None,
                         !.prevotes = RetainFromHeight(@, h),
                         !.precommits = RetainFromHeight(@, h),
                         !.proposals = RetainFromHeight(@, h)],
        val |-> "Ok"]

RECURSIVE AddValidators(_, _)
\* for validator in validators { self.add_validator(..) }: the active flag of
\* the message's entries is not read
AddValidators(s, list) ==
    IF list = <<>> THEN s
    ELSE AddValidators(
            add_validator(s, Head(list).address, Head(list).public_key,
                          Head(list).voting_power),
            Tail(list))

\* the match of add_message: the object after the arm and the local `processed`
process_arm(s, m) ==
    CASE m.type = "Proposal" -> process_proposal(s, m)
      [] m.type = "Prevote" -> process_prevote(s, m)
      [] m.type = "Precommit" -> process_precommit(s, m)
      [] m.type = "ValidatorSet" -> [st |-> AddValidators(s, m.validators), ok |-> TRUE]
      [] m.type = "BlockCommit" -> [st |-> commit_block(s, m.block_hash[1]).st, ok |-> TRUE]

\* add_message running the quorum check after an accepted Precommit only
add_message_check_after_precommit(s, m) ==
    LET p == process_arm(s, m)
    IN IF p.ok /\ m.type = "Precommit"
       THEN {IF c = None
             THEN [st |-> p.st, val |-> "Ok", processed |-> TRUE]
             ELSE IF c = Panic
             THEN [st |-> p.st, val |-> "Panic", processed |-> TRUE]
             ELSE [st |-> commit_block(p.st, c[1]).st, val |-> "Ok", processed |-> TRUE]
             : c \in can_commit(p.st)}
       ELSE {[st |-> p.st, val |-> "Ok", processed |-> p.ok]}

\* <TendermintObject as ApplicationObject>::add_message: the set of the
\* outcomes of the call (one per value can_commit can return).  The message
\* is an already deserialized TendermintMessageType, and commit_block has no
\* error path, so the call returns Ok(()), or unwinds from a panic of
\* can_commit with the message already processed.
add_message(s, m) ==
    LET p == process_arm(s, m)
    IN IF p.ok
       THEN {IF c = None
             THEN [st |-> p.st, val |-> "Ok", processed |-> TRUE]
             ELSE IF c = Panic
             THEN [st |-> p.st, val |-> "Panic", processed |-> TRUE]
             ELSE [st |-> commit_block(p.st, c[1]).st, val |-> "Ok", processed |-> TRUE]
             : c \in can_commit(p.st)}
       ELSE {[st |-> p.st, val |-> "Ok", processed |-> FALSE]}

\* <TendermintObject as ApplicationObject>::get_latest_digest, the pair that
\* format!("{}:{}", ..) prints
get_latest_digest(s) == <<s.current_height, s.current_round>>

\* <TendermintObject as ApplicationObject>::get_state: the values read from
\* the object (the "type" text is fixed, voting_stats and the locked fields
\* are left out)
get_state(s) ==
    [height |-> s.current_height, round |-> s.current_round, state |-> s.state,
     validators |-> Cardinality(DOMAIN s.validators), blocks |-> Len(s.blocks),
     messages |-> Len(s.messages), total_voting_power |-> total_voting_power(s)]

\* <TendermintObject as ApplicationObject>::clone_box: TendermintObject::new()
clone_box(s) == TendermintNew

\* reset going back to the block list of a new object
reset_to_genesis(s) ==
    [s EXCEPT !.blocks = <<genesis_block>>,
              !.current_height = 1,
              !.current_round = 0,
              !.state = "Propose",
              !.proposals = <<>>,
              !.prevotes = <<>>,
              !.precommits = <<>>,
              !.locked_block = None,
              !.locked_round = None,
              !.messages = <<>>]

\* <TendermintObject as ApplicationObject>::reset
reset(s) ==
    [s EXCEPT !.current_height = 1,
              !.current_round = 0,
              !.state = "Propose",
              !.proposals = <<>>,
              !.prevotes = <<>>,
              !.precommits = <<>>,
              !.locked_block = None,
              !.locked_round = None,
              !.messages = <<>>]

(***************************************************************************)
(* SimpleSharedNumber                                                       *)
(***************************************************************************)
\* serde_json::Value of a SharedMessage's data: an integer, or a number that
\* is not an i64 (n stands for n + 0.5)
JsonInt(n) == <<"i64", n>>

JsonFloat(n) == <<"f64", n>>

\* Value::is_i64
is_i64(data) == data[1] = "i64"

\* Value::as_i64 of a value for which is_i64 holds
as_i64(data) == data[2]

\* SharedMessage: its id and its data (the fields the object reads or stores)
SharedMessage(id, data) == [id |-> id, data |-> data]

\* SimpleSharedNumber::new
NumberNew ==
    [number |-> 0, messages |-> <<>>, seen_hashes |-> {}, digests |-> <<>>]

\* SimpleSharedNumber::calculate_message_hash: SHA-256 of the JSON text of
\* {"content": data}, one hash per value of data
calculate_message_hash(data) == <<"sha256", "content", data>>

\* <SimpleSharedNumber as ApplicationObject>::is_valid
number_is_valid(n, message) == is_i64(message.data)

\* add_message without the seen_hashes lookup
number_add_message_no_dedup(n, message) ==
    IF is_i64(message.data)
    THEN [n EXCEPT !.seen_hashes = @ \cup {calculate_message_hash(message.data)},
                   !.number = @ + as_i64(message.data),
                   !.messages = Append(@, message)]
    ELSE [n EXCEPT !.seen_hashes = @ \cup {calculate_message_hash(message.data)}]

\* the i64 result of arithmetic whose mathematical value is n, in a build
\* without overflow checks (an i64 has as many bits as a u64)
wrapping_i64(n) == ((n + U64 \div 2) % U64) - U64 \div 2

\* arithmetic whose mathematical value is n overflows an i64
overflows_i64(n) == n >= U64 \div 2 \/ n < 0 - U64 \div 2

\* <SimpleSharedNumber as ApplicationObject>::add_message (always Ok(())) in
\* a build without overflow checks: `self.number += value` wraps
number_add_message(n, message) ==
    LET msg_hash == calculate_message_hash(message.data)
    IN IF msg_hash \in n.seen_hashes THEN n
       ELSE IF is_i64(message.data)
            THEN [n EXCEPT !.seen_hashes = @ \cup {msg_hash},
                           !.number = wrapping_i64(@ + as_i64(message.data)),
                           !.messages = Append(@, message)]
            ELSE [n EXCEPT !.seen_hashes = @ \cup {msg_hash}]

\* the objects add_message can leave: that of the build without overflow
\* checks, and, when `self.number += value` overflows, that of the build with
\* overflow checks, which panics after seen_hashes.insert(msg_hash)
number_add_message_outcomes(n, message) ==
    LET msg_hash == calculate_message_hash(message.data)
    IN {number_add_message(n, message)}
         \cup (IF /\ msg_hash \notin n.seen_hashes
                  /\ is_i64(message.data)
                  /\ overflows_i64(n.number + as_i64(message.data))
               THEN {[n EXCEPT !.seen_hashes = @ \cup {msg_hash}]}
               ELSE {})

\* <SimpleSharedNumber as ApplicationObject>::get_latest_digest: the decimal
\* text of number, one text per integer
number_get_latest_digest(n) == <<"decimal", n.number>>

\* <SimpleSharedNumber as ApplicationObject>::get_state
number_get_state(n) ==
    [number |-> n.number, message_count |-> Len(n.messages),
     seen_hashes_count |-> Cardinality(n.seen_hashes)]

\* <SimpleSharedNumber as ApplicationObject>::clone_box: Box::new(self.clone())
number_clone_box(n) ==
    [number |-> n.number, messages |-> n.messages, seen_hashes |-> n.seen_hashes,
     digests |-> n.digests]

\* <SimpleSharedNumber as ApplicationObject>::reset
number_reset(n) ==
    [n EXCEPT !.number = 0, !.messages = <<>>, !.seen_hashes = {}, !.digests = <<>>]

\* ApplicationObjectRegistry::process_message for a registry holding this one
\* object: add_message runs when is_valid returns true
number_dispatch(n, message) ==
    IF number_is_valid(n, message) THEN number_add_message(n, message) ELSE n

(***************************************************************************)
(* ChatroomObject (src/src/examples/chatroom.rs)                            *)
(***************************************************************************)
\* a signature string that is not hexadecimal text
NotHex == <<"nothex", "zz">>

\* ChatroomMessageType, one record shape for the four variants; a field a
\* variant does not have is None.  timestamp is "recent" when it lies within
\* 15 seconds of the clock at the time the message is processed, else "old".
ChatroomMsg(message_type, chatroom_name, public_key_pem, requester_key_pem, text, timestamp, signature) ==
    [message_type |-> message_type, chatroom_name |-> chatroom_name,
     public_key_pem |-> public_key_pem, requester_key_pem |-> requester_key_pem,
     text |-> text, timestamp |-> timestamp, signature |-> signature]

\* serde_json::Value of a SharedMessage's data that deserializes as a
\* ChatroomMessageType
JsonChat(msg) == <<"chatroom", msg>>

\* serde_json::from_value::<ChatroomMessageType>(data).is_ok()
is_chatroom_message(data) == data[1] = "chatroom"

\* struct Chatroom
Chatroom(name, admin, members, messages) ==
    [name |-> name, admin |-> admin, members |-> members, messages |-> messages]

\* struct ChatMessage
ChatMessage(message_type, m) ==
    [message_type |-> message_type, chatroom_name |-> m.chatroom_name,
     public_key_pem |-> m.public_key_pem, text |-> m.text,
     requester_key_pem |-> m.requester_key_pem, timestamp |-> m.timestamp,
     signature |-> m.signature]

\* ChatroomObject::new (users and verifier are never written)
ChatroomNew == [chatrooms |-> <<>>]

\* ChatroomObject::validate_signature: Err when the signature is not
\* hexadecimal text, else Ok(whether it verifies against public_key_pem)
validate_signature(m) ==
    IF m.signature[1] # "sig" THEN [val |-> "Err", ok |-> FALSE]
    ELSE [val |-> "Ok", ok |-> Verifies(m.public_key_pem, m.signature)]

\* ChatroomObject::is_timestamp_recent
is_timestamp_recent(timestamp) == timestamp = "recent"

\* Vec::contains
Contains(seq, x) == \E i \in 1..Len(seq) : seq[i] = x

\* ChatroomObject::process_create_chatroom, after the signature and timestamp
\* checks
process_create_chatroom(c, m) ==
    IF m.chatroom_name \in DOMAIN c.chatrooms THEN c
    ELSE [c EXCEPT !.chatrooms =
            MapInsert(@, m.chatroom_name,
                      Chatroom(m.chatroom_name, m.public_key_pem,
                               <<m.public_key_pem>>, <<>>))]

\* ChatroomObject::process_request_join, after the two checks
process_request_join(c, m) ==
    IF m.chatroom_name \notin DOMAIN c.chatrooms THEN c
    ELSE [c EXCEPT !.chatrooms[m.chatroom_name].messages =
            Append(@, ChatMessage("REQUEST_JOIN", m))]

\* ChatroomObject::process_accept_member, after the two checks
process_accept_member(c, m) ==
    IF m.chatroom_name \notin DOMAIN c.chatrooms THEN c
    ELSE IF c.chatrooms[m.chatroom_name].admin # m.public_key_pem THEN c
    ELSE [c EXCEPT !.chatrooms[m.chatroom_name].members =
                      IF Contains(@, m.requester_key_pem[1]) THEN @
                      ELSE Append(@, m.requester_key_pem[1]),
                   !.chatrooms[m.chatroom_name].messages =
                      Append(@, ChatMessage("ACCEPT_MEMBER", m))]

\* process_post_message without the members.contains test
process_post_message_by_anyone(c, m) ==
    IF m.chatroom_name \notin DOMAIN c.chatrooms THEN c
    ELSE [c EXCEPT !.chatrooms[m.chatroom_name].messages =
            Append(@, ChatMessage("POST_MESSAGE", m))]

\* ChatroomObject::process_post_message, after the two checks
process_post_message(c, m) ==
    IF m.chatroom_name \notin DOMAIN c.chatrooms THEN c
    ELSE IF ~Contains(c.chatrooms[m.chatroom_name].members, m.public_key_pem) THEN c
    ELSE [c EXCEPT !.chatrooms[m.chatroom_name].messages =
            Append(@, ChatMessage("POST_MESSAGE", m))]

\* <ChatroomObject as ApplicationObject>::is_valid
chat_is_valid(c, message) == is_chatroom_message(message.data)

\* <ChatroomObject as ApplicationObject>::add_message; val is "Ok" or "Err".
\* Every process_* method first validates the signature (its error is
\* propagated by `?`), then the timestamp.
chat_add_message(c, message) ==
    IF ~is_chatroom_message(message.data) THEN [st |-> c, val |-> "Err"]
    ELSE LET m == message.data[2]
             sig == validate_signature(m)
         IN IF sig.val = "Err" THEN [st |-> c, val |-> "Err"]
            ELSE IF ~sig.ok \/ ~is_timestamp_recent(m.timestamp)
            THEN [st |-> c, val |-> "Ok"]
            ELSE [st |-> CASE m.message_type = "CREATE_CHATROOM" ->
                                process_create_chatroom(c, m)
                           [] m.message_type = "REQUEST_JOIN" ->
                                process_request_join(c, m)
                           [] m.message_type = "ACCEPT_MEMBER" ->
                                process_accept_member(c, m)
                           [] m.message_type = "POST_MESSAGE" ->
                                process_post_message(c, m),
                  val |-> "Ok"]

(***************************************************************************)
(* ApplicationObjectRegistry (src/src/shared_object.rs)                     *)
(***************************************************************************)
\* a Box<dyn ApplicationObject>: its type_name and the object itself
Object(type_name, st) == [type_name |-> type_name, st |-> st]

\* ApplicationObject::is_valid of a boxed object
object_is_valid(object, message) ==
    IF object.type_name = "SimpleSharedNumber"
    THEN number_is_valid(object.st, message)
    ELSE chat_is_valid(object.st, message)

\* ApplicationObject::add_message of a boxed object: the object after the
\* call and "Ok" or "Err"
object_add_message(object, message) ==
    IF object.type_name = "SimpleSharedNumber"
    THEN [st |-> Object(object.type_name, number_add_message(object.st, message)),
          val |-> "Ok"]
    ELSE LET a == chat_add_message(object.st, message)
         IN [st |-> Object(object.type_name, a.st), val |-> a.val]

\* ApplicationObjectRegistry::new
RegistryNew == [objects |-> <<>>, objects_by_type |-> <<>>]

\* ApplicationObjectRegistry::register of an object whose id() is `id`
register(r, id, object) ==
    [objects |-> MapInsert(r.objects, id, object),
     objects_by_type |->
        MapInsert(r.objects_by_type, object.type_name,
                  IF object.type_name \in DOMAIN r.objects_by_type
                  THEN Append(r.objects_by_type[object.type_name], id)
                  ELSE <<id>>)]

\* the ids of `seq` other than `id`, in their order (Vec::retain)
RECURSIVE RetainOthers(_, _)
RetainOthers(seq, id) ==
    IF seq = <<>> THEN <<>>
    ELSE IF Head(seq) = id THEN RetainOthers(Tail(seq), id)
    ELSE <<Head(seq)>> \o RetainOthers(Tail(seq), id)

\* ApplicationObjectRegistry::remove
remove(r, id) ==
    IF id \notin DOMAIN r.objects THEN r
    ELSE LET type_name == r.objects[id].type_name
             objects == [k \in DOMAIN r.objects \ {id} |-> r.objects[k]]
         IN IF type_name \notin DOMAIN r.objects_by_type
            THEN [objects |-> objects, objects_by_type |-> r.objects_by_type]
            ELSE LET type_list == RetainOthers(r.objects_by_type[type_name], id)
                 IN [objects |-> objects,
                     objects_by_type |->
                        IF type_list = <<>>
                        THEN [k \in DOMAIN r.objects_by_type \ {type_name} |->
                                 r.objects_by_type[k]]
                        ELSE [r.objects_by_type EXCEPT ![type_name] = type_list]]

\* ApplicationObjectRegistry::clear
clear(r) == [objects |-> <<>>, objects_by_type |-> <<>>]

\* clone_box of a SimpleSharedNumber or a ChatroomObject: Box::new(self.clone()),
\* every field copied, the id with them
object_clone_box(object) == [type_name |-> object.type_name, st |-> object.st]

\* the orders self.objects.keys() can yield the keys in: a HashMap iterates
\* in an unspecified order
KeyOrders(keys) ==
    {order \in [1..Cardinality(keys) -> keys] :
        \A i, j \in 1..Cardinality(keys) : i # j => order[i] # order[j]}

\* the for loop of process_message that adds without asking is_valid
RECURSIVE dispatch_unchecked(_, _, _, _, _)
dispatch_unchecked(r, message, ids, processed_objects, called) ==
    IF ids = <<>>
    THEN [st |-> r, val |-> "Ok", ids |-> processed_objects, called |-> called]
    ELSE LET id == Head(ids)
             a == object_add_message(r.objects[id], message)
             after == [r EXCEPT !.objects[id] = a.st]
         IN IF a.val = "Err"
            THEN [st |-> after, val |-> "Err", ids |-> <<>>,
                  called |-> Append(called, id)]
            ELSE dispatch_unchecked(after, message, Tail(ids),
                                    Append(processed_objects, id), Append(called, id))

\* the for loop of process_message over the remaining `ids`: st is the
\* registry after the call, val is "Ok" or "Err", ids is the Vec inside
\* Ok(..), and called lists the objects whose add_message ran, in order.  An
\* Err of add_message leaves the loop at once (the `?` operator).
RECURSIVE dispatch(_, _, _, _, _)
dispatch(r, message, ids, processed_objects, called) ==
    IF ids = <<>>
    THEN [st |-> r, val |-> "Ok", ids |-> processed_objects, called |-> called]
    ELSE LET id == Head(ids)
         IN IF object_is_valid(r.objects[id], message)
            THEN LET a == object_add_message(r.objects[id], message)
                     after == [r EXCEPT !.objects[id] = a.st]
                 IN IF a.val = "Err"
                    THEN [st |-> after, val |-> "Err", ids |-> <<>>,
                          called |-> Append(called, id)]
                    ELSE dispatch(after, message, Tail(ids),
                                  Append(processed_objects, id), Append(called, id))
            ELSE dispatch(r, message, Tail(ids), processed_objects, called)

\* ApplicationObjectRegistry::process_message: the set of the outcomes of the
\* call, one per order the keys can be iterated in
process_message(r, message) ==
    {dispatch(r, message, order, <<>>, <<>>) : order \in KeyOrders(DOMAIN r.objects)}

(***************************************************************************)
(* MemoryStorage (src/src/storage.rs) and ChainCraftNode (src/src/node.rs)  *)
(***************************************************************************)
\* MemoryStorage::new: the HashMap behind the storage's lock
StorageNew == <<>>

\* <MemoryStorage as Storage>::get
storage_get(data, key) == IF key \in DOMAIN data THEN Some(data[key]) ELSE None

\* put that keeps the value a key already has
storage_put_if_absent(data, key, value) ==
    IF key \in DOMAIN data THEN data ELSE MapInsert(data, key, value)

\* <MemoryStorage as Storage>::put
storage_put(data, key, value) == MapInsert(data, key, value)

\* <MemoryStorage as Storage>::delete
storage_delete(data, key) == [k \in DOMAIN data \ {key} |-> data[k]]

\* <MemoryStorage as Storage>::exists
storage_exists(data, key) == key \in DOMAIN data

\* <MemoryStorage as Storage>::clear
storage_clear(data) == <<>>

\* the hash field of the SharedMessage built from a fresh id and `data`
MessageHash(message) == <<"sha256", message.id, message.data>>

\* SharedMessage::to_json as bytes: one text per message
MessageJson(message) == <<"json", message>>

\* a task between calls; message is the one it last created
TaskIdle(message) ==
    [pc |-> "idle", message |-> message, ids |-> <<>>, processed_objects |-> <<>>]

\* the tasks that share the node's app_objects handle
Tasks == {"t1", "t2"}

\* ChainCraftNode::new.  write_lock is the holder of the write half of the
\* app_objects RwLock; created counts the messages built so far and gives
\* each its id; serial is the registry obtained by running every registry
\* call at once at the moment its lock was taken; closed records that stop
\* was the last of start and stop; log lists the calls made on the storage
\* by its own callers.
NodeNew ==
    [running |-> FALSE,
     closed |-> FALSE,
     log |-> <<>>,
     storage |-> StorageNew,
     app_objects |-> RegistryNew,
     write_lock |-> None,
     created |-> 0,
     serial |-> RegistryNew,
     tasks |-> [t \in Tasks |-> TaskIdle(None)]]

\* ChainCraftNode::start
node_start(n) == [n EXCEPT !.running = TRUE, !.closed = FALSE]

\* ChainCraftNode::stop
node_stop(n) == [n EXCEPT !.running = FALSE, !.closed = TRUE]

\* ChainCraftNode::close
node_close(n) == node_stop(n)

\* ChainCraftNode::is_running_async
is_running_async(n) == n.running

\* a write().await that returns at once whoever holds the lock
can_acquire_always(n) == TRUE

\* self.app_objects.write().await returns only while nobody holds the lock
can_acquire(n) == n.write_lock = None

\* ChainCraftNode::add_shared_object (the lock is taken, register runs and
\* the lock is dropped without an await in between)
add_shared_object(n, id, object) ==
    [n EXCEPT !.app_objects = register(@, id, object),
              !.serial = register(@, id, object)]

\* create_shared_message_with_data as one call with nothing running beside
\* it: the set of its outcomes, val "Ok" (with the hash) or "Err".  The
\* message is stored before it is processed; running is never read.
create_shared_message_with_data(n, data) ==
    LET message == SharedMessage(n.created + 1, data)
        stored == [n EXCEPT !.created = @ + 1,
                            !.storage = storage_put(@, MessageHash(message),
                                                    MessageJson(message))]
    IN {[st |-> [stored EXCEPT !.app_objects = r.st, !.serial = r.st],
         val |-> r.val,
         hash |-> MessageHash(message)] : r \in process_message(n.app_objects, message)}

(***************************************************************************)
(* MessageType and SharedMessage (src/src/shared.rs)                        *)
(***************************************************************************)
\* the variants of MessageType without a field
WellKnownKinds ==
    {"PeerDiscovery", "RequestLocalPeers", "LocalPeers", "RequestSharedObjectUpdate",
     "SharedObjectUpdate", "Get", "Set", "Delete", "Response", "Notification",
     "Heartbeat", "Error"}

\* a MessageType without a field
WellKnown(kind) == <<kind>>

\* MessageType::Custom(name)
Custom(name) == <<"Custom", name>>

\* the text Display writes for a variant without a field
Token(kind) ==
    CASE kind = "PeerDiscovery" ->
            <<"P", "E", "E", "R", "_", "D", "I", "S", "C", "O", "V", "E", "R", "Y">>
      [] kind = "RequestLocalPeers" ->
            <<"R", "E", "Q", "U", "E", "S", "T", "_", "L", "O", "C", "A", "L", "_", "P", "E", "E", "R", "S">>
      [] kind = "LocalPeers" ->
            <<"L", "O", "C", "A", "L", "_", "P", "E", "E", "R", "S">>
      [] kind = "RequestSharedObjectUpdate" ->
            <<"R", "E", "Q", "U", "E", "S", "T", "_", "S", "H", "A", "R", "E", "D", "_", "O", "B", "J", "E", "C", "T", "_", "U", "P", "D", "A", "T", "E">>
      [] kind = "SharedObjectUpdate" ->
            <<"S", "H", "A", "R", "E", "D", "_", "O", "B", "J", "E", "C", "T", "_", "U", "P", "D", "A", "T", "E">>
      [] kind = "Get" ->
            <<"G", "E", "T">>
      [] kind = "Set" ->
            <<"S", "E", "T">>
      [] kind = "Delete" ->
            <<"D", "E", "L", "E", "T", "E">>
      [] kind = "Response" ->
            <<"R", "E", "S", "P", "O", "N", "S", "E">>
      [] kind = "Notification" ->
            <<"N", "O", "T", "I", "F", "I", "C", "A", "T", "I", "O", "N">>
      [] kind = "Heartbeat" ->
            <<"H", "E", "A", "R", "T", "B", "E", "A", "T">>
      [] kind = "Error" ->
            <<"E", "R", "R", "O", "R">>

\* <MessageType as Display>::fmt, to_string()
to_string(message_type) ==
    IF message_type[1] = "Custom" THEN message_type[2] ELSE Token(message_type[1])

\* a JSON string and a JSON object with a single field
JsonStr(s) == <<"string", s>>

JsonObject(key, value) == <<"object", key, value>>

\* a writer of Custom(name) as the plain string name
serialize_as_name(message_type) == JsonStr(to_string(message_type))

\* <MessageType as Serialize>::serialize into JSON
serialize(message_type) ==
    IF message_type[1] = "Custom"
    THEN JsonObject("Custom", JsonStr(message_type[2]))
    ELSE JsonStr(to_string(message_type))

\* MessageTypeVisitor::visit_str
visit_str(value) ==
    IF \E kind \in WellKnownKinds : Token(kind) = value
    THEN WellKnown(CHOOSE kind \in WellKnownKinds : Token(kind) = value)
    ELSE Custom(value)

\* MessageTypeVisitor::visit_map: None stands for Err
visit_map(key, value) ==
    IF key = "Custom" /\ value[1] = "string" THEN Some(Custom(value[2])) ELSE None

\* <MessageType as Deserialize>::deserialize from JSON: None stands for Err
deserialize(json) ==
    IF json[1] = "string" THEN Some(visit_str(json[2]))
    ELSE IF json[1] = "object" THEN visit_map(json[2], json[3])
    ELSE None

\* the decimal digits of a natural number
RECURSIVE ToDecimal(_)
ToDecimal(n) ==
    LET digit == <<"0", "1", "2", "3", "4", "5", "6", "7", "8", "9">>[(n % 10) + 1]
    IN IF n < 10 THEN <<digit>> ELSE Append(ToDecimal(n \div 10), digit)

\* serde_json::Value::to_string of a number: the JSON text
JsonText(data) ==
    LET n == data[2]
        digits == IF n < 0 THEN <<"-">> \o ToDecimal(0 - n) ELSE ToDecimal(n)
    IN IF is_i64(data) THEN digits ELSE digits \o <<".", "5">>

\* bincode of a serde_json number: eight bytes, of the integer or of the bits
\* of the f64, with no tag of the JSON type
BincodeValue(data) ==
    IF is_i64(data) THEN <<"le64", as_i64(data)>> ELSE <<"le64", "f64::to_bits", data>>

\* struct SharedMessage
Message(id, message_type, target_id, data, timestamp, signature, hash) ==
    [id |-> id, message_type |-> message_type, target_id |-> target_id, data |-> data,
     timestamp |-> timestamp, signature |-> signature, hash |-> hash]

\* SharedMessage::calculate_hash: SHA-256 (one digest per byte string) of the
\* bytes of the id, the kind's to_string(), the data's JSON text and the
\* RFC 3339 text of the timestamp, fed one after another.  The 24 bytes of
\* the id and the text of the timestamp, both of a fixed shape, are one
\* element each
calculate_hash(m) ==
    <<"sha256", <<m.id>> \o to_string(m.message_type) \o JsonText(m.data)
                    \o <<m.timestamp>> >>

\* SharedMessage::verify_hash
verify_hash(m) == m.hash = calculate_hash(m)

\* SharedMessage::new: id is the Uuid drawn and timestamp the time read
message_new(id, message_type, data, timestamp) ==
    LET message == Message(id, message_type, None, data, timestamp, None, <<>>)
    IN [message EXCEPT !.hash = calculate_hash(message)]

\* SharedMessage::new_with_target
message_new_with_target(id, message_type, target_id, data, timestamp) ==
    LET message == Message(id, message_type, Some(target_id), data, timestamp, None, <<>>)
    IN [message EXCEPT !.hash = calculate_hash(message)]

\* SharedMessage::custom of data that is already JSON
message_custom(id, name, data, timestamp) == message_new(id, Custom(name), data, timestamp)

\* SharedMessage::to_bytes: bincode of the fields in order; a kind is written
\* as a length and a string in both shapes of Serialize for MessageType
to_bytes(m) ==
    <<m.id, to_string(m.message_type), m.target_id, BincodeValue(m.data), m.timestamp,
      m.signature, m.hash>>

\* a key pair of crypto::PrivateKey / crypto::PublicKey
KeyPair(scheme, key) == [scheme |-> scheme, key |-> key]

\* Signature::to_bytes of PrivateKey::sign: 64 bytes under both schemes
SignatureBytes(private_key, message_bytes) ==
    [len |-> 64, key |-> private_key.key, message |-> message_bytes]

\* Verifier::verify of 64 signature bytes
SignatureVerifies(public_key, message_bytes, sig_bytes) ==
    sig_bytes.key = public_key.key /\ sig_bytes.message = message_bytes

\* SharedMessage::sign
sign(m, private_key) ==
    [m EXCEPT !.signature = Some(SignatureBytes(private_key, to_bytes(m)))]

\* SharedMessage::verify_signature: "Ok(true)", "Ok(false)" or "Err"
verify_signature(m, public_key) ==
    IF m.signature # None
    THEN LET sig_bytes == m.signature[1]
             message_bytes == to_bytes([m EXCEPT !.signature = None])
             verified == IF SignatureVerifies(public_key, message_bytes, sig_bytes)
                         THEN "Ok(true)" ELSE "Ok(false)"
         IN IF public_key.scheme = "Ed25519"
            THEN IF sig_bytes.len # 64 THEN "Err" ELSE verified
            ELSE IF sig_bytes.len # 64 THEN "Err" ELSE verified
    ELSE "Ok(false)"

\* SharedMessage::to_json: the JSON object, field by field
to_json(m) ==
    [id |-> JsonStr(m.id), message_type |-> serialize(m.message_type),
     target_id |-> IF m.target_id = None THEN <<"null">> ELSE JsonStr(m.target_id[1]),
     data |-> m.data, timestamp |-> JsonStr(m.timestamp),
     signature |-> IF m.signature = None THEN <<"null">> ELSE <<"array", m.signature[1]>>,
     hash |-> JsonStr(m.hash)]

\* SharedMessage::from_json: None stands for Err
from_json(json) ==
    LET message_type == deserialize(json.message_type)
    IN IF message_type = None THEN None
       ELSE Some(Message(json.id[2], message_type[1],
                         IF json.target_id = <<"null">> THEN None
                         ELSE Some(json.target_id[2]),
                         json.data, json.timestamp[2],
                         IF json.signature = <<"null">> THEN None
                         ELSE Some(json.signature[2]),
                         json.hash[2]))

\* <SharedMessage as PartialEq>::eq
message_eq(a, b) == a.id = b.id /\ a.hash = b.hash

\* no message built yet
MessageNone == [message |-> None, signed |-> 0, decoded |-> FALSE]

(***************************************************************************)
(* RandomnessBeaconObject (src/src/examples/randomness_beacon.rs).  The     *)
(* messages log and the bias challenges are left out: no method modelled    *)
(* here reads them.                                                         *)
(***************************************************************************)
\* the threshold of RandomnessBeaconObject::new(1, 2) in the tests
TestThreshold == 2

\* BeaconMessageType, one record shape for the variants modelled; value is
\* the output of a VrfProof and the partial_sig of a PartialSignature
BeaconMsg(type, round, validator, value) ==
    [type |-> type, round |-> round, validator |-> validator, value |-> value]

\* struct VrfProof: the fields finalize_round reads
VrfProof(validator, output) == [validator |-> validator, output |-> output]

\* struct BeaconRound; threshold_signature is the table of partial
\* signatures the text is printed from
BeaconRound(round, randomness, participants, vrf_proofs, threshold_signature) ==
    [round |-> round, randomness |-> randomness, participants |-> participants,
     vrf_proofs |-> vrf_proofs, threshold_signature |-> threshold_signature]

\* RandomnessBeaconObject::new
BeaconNew(threshold) ==
    [validators |-> <<>>, rounds |-> <<>>, current_round |-> 1,
     pending_vrf_proofs |-> <<>>, pending_partial_sigs |-> <<>>,
     threshold |-> threshold]

\* RandomnessBeaconObject::register_validator
register_validator(b, address) ==
    [b EXCEPT !.validators = MapInsert(@, address, [address |-> address, active |-> TRUE])]

\* map.entry(key).or_default() of a map of Vecs or of maps
OrDefault(map, key) == IF key \in DOMAIN map THEN map[key] ELSE <<>>

\* RandomnessBeaconObject::process_vrf_proof: the object after the call and
\* the bool inside Ok
process_vrf_proof(b, msg) ==
    IF msg.type # "VrfProof" THEN [st |-> b, val |-> FALSE]
    ELSE IF msg.round # b.current_round THEN [st |-> b, val |-> FALSE]
    ELSE IF msg.validator \notin DOMAIN b.validators THEN [st |-> b, val |-> FALSE]
    ELSE [st |-> [b EXCEPT !.pending_vrf_proofs =
                      MapInsert(@, msg.round,
                                Append(OrDefault(@, msg.round),
                                       VrfProof(msg.validator, msg.value)))],
          val |-> TRUE]

\* RandomnessBeaconObject::process_partial_signature
process_partial_signature(b, msg) ==
    IF msg.type # "PartialSignature" THEN [st |-> b, val |-> FALSE]
    ELSE IF msg.round # b.current_round THEN [st |-> b, val |-> FALSE]
    ELSE IF msg.validator \notin DOMAIN b.validators THEN [st |-> b, val |-> FALSE]
    ELSE [st |-> [b EXCEPT !.pending_partial_sigs =
                      MapInsert(@, msg.round,
                                MapInsert(OrDefault(@, msg.round), msg.validator,
                                          msg.value))],
          val |-> TRUE]

\* the number of proofs, and of partial signatures, pending for current_round
vrf_count(b) == Len(OrDefault(b.pending_vrf_proofs, b.current_round))

partial_sig_count(b) ==
    Cardinality(DOMAIN OrDefault(b.pending_partial_sigs, b.current_round))

\* can_finalize_round asking for one of the two counts only
can_finalize_round_either(b) ==
    vrf_count(b) >= b.threshold \/ partial_sig_count(b) >= b.threshold

\* RandomnessBeaconObject::can_finalize_round
can_finalize_round(b) ==
    vrf_count(b) >= b.threshold /\ partial_sig_count(b) >= b.threshold

\* the outputs of the proofs, and their validators, in the order of the Vec
ProofOutputs(proofs) == [i \in 1..Len(proofs) |-> proofs[i].output]

ProofValidators(proofs) == [i \in 1..Len(proofs) |-> proofs[i].validator]

\* the map without the key (HashMap::remove)
MapRemove(map, key) == [k \in DOMAIN map \ {key} |-> map[k]]

\* RandomnessBeaconObject::finalize_round: the object after the call and "Ok"
\* or "Err"; the randomness is SHA-256 of the outputs and the round
finalize_round(b) ==
    IF ~can_finalize_round(b) THEN [st |-> b, val |-> "Err"]
    ELSE LET vrf_proofs == OrDefault(b.pending_vrf_proofs, b.current_round)
             partial_sigs == OrDefault(b.pending_partial_sigs, b.current_round)
             final_randomness == <<"sha256", ProofOutputs(vrf_proofs), b.current_round>>
             beacon_round == BeaconRound(b.current_round, final_randomness,
                                         ProofValidators(vrf_proofs), vrf_proofs,
                                         partial_sigs)
         IN [st |-> [b EXCEPT
                       !.rounds = MapInsert(@, b.current_round, beacon_round),
                       !.pending_vrf_proofs = MapRemove(@, b.current_round),
                       !.pending_partial_sigs = MapRemove(@, b.current_round),
                       !.current_round = @ + 1],
             val |-> "Ok"]

\* the match of add_message: the object after the arm and `processed`
beacon_process_arm(b, msg) ==
    IF msg.type = "VrfProof" THEN process_vrf_proof(b, msg)
    ELSE IF msg.type = "PartialSignature" THEN process_partial_signature(b, msg)
    ELSE IF msg.type = "ValidatorRegistration"
    THEN [st |-> register_validator(b, msg.validator), val |-> TRUE]
    ELSE [st |-> b, val |-> TRUE]

\* <RandomnessBeaconObject as ApplicationObject>::add_message of data that
\* deserializes as a BeaconMessageType: the object after the call
beacon_add_message(b, msg) ==
    LET arm == beacon_process_arm(b, msg)
    IN IF arm.val /\ can_finalize_round(arm.st)
       THEN finalize_round(arm.st).st
       ELSE arm.st

(***************************************************************************)
(* Messages                                                                 *)
(***************************************************************************)
ProposalMsg(height, round, block_hash, proposer, signature) ==
    Msg("Proposal", height, round, Some(block_hash), proposer, signature, <<>>)

PrevoteMsg(height, round, block_hash, validator, signature) ==
    Msg("Prevote", height, round, block_hash, validator, signature, <<>>)

PrecommitMsg(height, round, block_hash, validator, signature) ==
    Msg("Precommit", height, round, block_hash, validator, signature, <<>>)

\* validators is the Vec<ValidatorInfo> of the message
ValidatorSetMsg(validators, height) ==
    Msg("ValidatorSet", height, 0, None, "", None, validators)

\* commit_signatures of the message is never read by add_message
BlockCommitMsg(height, block_hash) ==
    Msg("BlockCommit", height, 0, Some(block_hash), "", None, <<>>)

\* whether the signature a proposal or a vote carries verifies against the
\* key of the validator it names
MsgVerifies(m) == Verifies(m.validator, m.signature)

\* a proposal or vote for another (height, round) than the object's
Stale(s, m) ==
    /\ m.type \in {"Proposal", "Prevote", "Precommit"}
    /\ ~(m.height = s.current_height /\ m.round = s.current_round)

(***************************************************************************)
(* State and actions                                                        *)
(***************************************************************************)
Init ==
    /\ tm = TendermintNew
    /\ num = NumberNew
    /\ registry = RegistryNew
    /\ node = NodeNew
    /\ sm = MessageNone
    /\ beacon = BeaconNew(TestThreshold)

\* the model follows the object while its logs are within the bound
Within(s) == Len(s.messages) + (Len(s.blocks) - 1) <= MaxWork

AddValidator(address, voting_power) ==
    /\ tm' = add_validator(tm, address, PublicKeyOf(address), voting_power)
    /\ UNCHANGED <<num, registry, node, sm, beacon>>

ProcessProposal(m) ==
    LET r == process_proposal(tm, m)
    IN /\ Within(r.st)
       /\ tm' = r.st
       /\ UNCHANGED <<num, registry, node, sm, beacon>>

ProcessPrevote(m) ==
    LET r == process_prevote(tm, m)
    IN /\ Within(r.st)
       /\ tm' = r.st
       /\ UNCHANGED <<num, registry, node, sm, beacon>>

ProcessPrecommit(m) ==
    LET r == process_precommit(tm, m)
    IN /\ Within(r.st)
       /\ tm' = r.st
       /\ UNCHANGED <<num, registry, node, sm, beacon>>

CommitBlock(block_hash) ==
    LET r == commit_block(tm, block_hash)
    IN /\ Within(r.st)
       /\ tm' = r.st
       /\ UNCHANGED <<num, registry, node, sm, beacon>>

AddMessage(m) ==
    \E r \in add_message(tm, m) :
        /\ Within(r.st)
        /\ tm' = r.st
        /\ UNCHANGED <<num, registry, node, sm, beacon>>

Reset ==
    /\ tm' = reset(tm)
    /\ UNCHANGED <<num, registry, node, sm, beacon>>

\* a caller's writes to the public fields current_height and current_round
\* (test_tendermint_reset)
SetPosition(height, round) ==
    /\ tm' = [tm EXCEPT !.current_height = height, !.current_round = round]
    /\ UNCHANGED <<num, registry, node, sm, beacon>>

(***************************************************************************)
(* SpecQuorum: validators are registered and precommits for the current     *)
(* (height, round) are recorded by direct calls; nothing commits, so every  *)
(* tally can_commit can meet is reached.                                    *)
(***************************************************************************)
OptionHashes == {None} \cup {Some(h) : h \in Hashes}

QuorumAddValidator ==
    \E a \in Addresses, p \in VotingPowers : AddValidator(a, p)

QuorumProcessPrecommit ==
    \E v \in Addresses, bh \in OptionHashes :
        ProcessPrecommit(
            PrecommitMsg(tm.current_height, tm.current_round, bh, v, SigOf(v)))

NextQuorum == QuorumAddValidator \/ QuorumProcessPrecommit

SpecQuorum == Init /\ [][NextQuorum]_vars

(***************************************************************************)
(* The quorum rule, stated from the tables alone                            *)
(***************************************************************************)
\* the precommits recorded at the object's current (height, round)
CurrentPrecommits(s) ==
    IF CurrentKey(s) \in DOMAIN s.precommits THEN s.precommits[CurrentKey(s)] ELSE <<>>

\* the summed voting power of the registered validators whose recorded
\* precommit at the current (height, round) is for `block_hash` (an Option)
PrecommitPower(s, block_hash) ==
    SumPower(s.validators,
             {a \in DOMAIN s.validators :
                 /\ a \in DOMAIN CurrentPrecommits(s)
                 /\ CurrentPrecommits(s)[a].block_hash = block_hash})

\* the summed voting power of the active validators
TotalActivePower(s) ==
    SumPower(s.validators, {a \in DOMAIN s.validators : s.validators[a].active})

\* power * 3 > total_active_power * 2 for `block_hash`
HoldsQuorum(s, block_hash) ==
    PrecommitPower(s, block_hash) * 3 > TotalActivePower(s) * 2

\* C1: can_commit() returns Some(H) exactly when the registered validators
\* whose recorded precommit at (current_height, current_round) is for H hold
\* power*3 > total_active_power*2, and returns None otherwise; precommits of
\* addresses outside the validator map add no power.
C1_CanCommitExactlyOnQuorum ==
    /\ \A h \in Hashes : (Some(h) \in can_commit(tm)) <=> HoldsQuorum(tm, Some(h))
    /\ (None \in can_commit(tm)) <=> (\A h \in Hashes : ~HoldsQuorum(tm, Some(h)))
    /\ Cardinality(can_commit(tm)) = 1

\* three validators of weight 100 have all precommitted H1, which can_commit
\* returns
C1_Witness ==
    /\ DOMAIN tm.validators = Addresses
    /\ \A a \in Addresses : tm.validators[a].voting_power = 100
    /\ DOMAIN CurrentPrecommits(tm) = Addresses
    /\ \A a \in Addresses : CurrentPrecommits(tm)[a].block_hash = Some("H1")
    /\ can_commit(tm) = {Some("H1")}

\* the voting powers has_majority is tried on
Tallies == UNION {{50 * k, 50 * k + 1} : k \in 0..MaxTallyStep}

\* C2: has_majority(p) is true exactly when p*3 > total_voting_power()*2, the
\* total being the summed power of the active validators; exactly two thirds
\* is not enough.
C2_HasMajorityStrictTwoThirds ==
    /\ total_voting_power(tm) = TotalActivePower(tm)
    /\ \A p \in Tallies :
          has_majority(tm, p) <=> (p * 3 > TotalActivePower(tm) * 2)

\* total 450: has_majority(300) is false and has_majority(301) is true
C2_Witness ==
    /\ total_voting_power(tm) = 450
    /\ ~has_majority(tm, 300)
    /\ has_majority(tm, 301)

\* C3: nil precommits never produce a commit: when the nil candidate holds
\* more than two thirds of the active power, can_commit() returns None, and
\* an add_message of a nil precommit that leaves nil with that quorum appends
\* no block.
C3_NilNeverCommits ==
    /\ HoldsQuorum(tm, None) => can_commit(tm) = {None}
    /\ \A v \in Addresses :
          LET m == PrecommitMsg(tm.current_height, tm.current_round, None, v, SigOf(v))
          IN HoldsQuorum(process_precommit(tm, m).st, None) =>
                \A r \in add_message(tm, m) :
                    /\ r.st.blocks = tm.blocks
                    /\ r.st.current_height = tm.current_height

\* nil holds the quorum while another validator precommitted a block
C3_Witness ==
    /\ HoldsQuorum(tm, None)
    /\ PrecommitPower(tm, Some("H1")) > 0

(***************************************************************************)
(* Spec: the consensus object under every operation it offers               *)
(***************************************************************************)
\* the (height, round) pairs messages carry: that of a new object, a later
\* height and a later round
MsgPositions == {<<1, 0>>, <<2, 0>>, <<1, 1>>}

\* the validator lists ValidatorSet messages carry
ValidatorLists ==
    {<<ValidatorInfo("v1", PublicKeyOf("v1"), 100, FALSE),
       ValidatorInfo("v2", PublicKeyOf("v2"), 100, TRUE)>>}

ProposalMsgs ==
    {ProposalMsg(p[1], p[2], "H1", "v1", SigOf("v1")) : p \in MsgPositions}

PrevoteMsgs ==
    {PrevoteMsg(p[1], p[2], Some("H1"), "v2", SigOf("v2")) : p \in MsgPositions}

PrecommitMsgs ==
    UNION {{PrecommitMsg(p[1], p[2], Some("H1"), "v1", SigOf("v1")),
            PrecommitMsg(p[1], p[2], Some("H1"), "v2", Forged),
            PrecommitMsg(p[1], p[2], None, "v2", SigOf("v2"))}
           : p \in MsgPositions}

ValidatorSetMsgs == {ValidatorSetMsg(list, 1) : list \in ValidatorLists}

BlockCommitMsgs == {BlockCommitMsg(1, "H2")}

TendermintMsgs ==
    ProposalMsgs \cup PrevoteMsgs \cup PrecommitMsgs \cup ValidatorSetMsgs
        \cup BlockCommitMsgs

SpecAddValidator == \E a \in {"v1", "v2"} : AddValidator(a, 100)

SpecProcessProposal == \E m \in ProposalMsgs : ProcessProposal(m)

SpecProcessPrevote == \E m \in PrevoteMsgs : ProcessPrevote(m)

SpecProcessPrecommit == \E m \in PrecommitMsgs : ProcessPrecommit(m)

SpecCommitBlock == \E h \in Hashes : CommitBlock(h)

SpecAddMessage == \E m \in TendermintMsgs : AddMessage(m)

Next ==
    \/ SpecAddValidator
    \/ SpecProcessProposal
    \/ SpecProcessPrevote
    \/ SpecProcessPrecommit
    \/ SpecCommitBlock
    \/ SpecAddMessage
    \/ Reset

Spec == Init /\ [][Next]_vars

(***************************************************************************)
(* SpecMessages: messages reach the consensus object only through           *)
(* add_message                                                              *)
(***************************************************************************)
NextMessages == SpecAddMessage

SpecMessages == Init /\ [][NextMessages]_vars

(***************************************************************************)
(* SpecFields: direct calls on an object whose caller also writes the       *)
(* public fields current_height and current_round, as test_tendermint_reset *)
(* does                                                                     *)
(***************************************************************************)
\* the positions the caller writes (test_tendermint_reset writes 5 and 2)
FieldPositions == {<<1, 1>>, <<5, 2>>}

FieldsSetPosition == \E p \in FieldPositions : SetPosition(p[1], p[2])

\* precommits for the position the object is at
FieldsProcessPrecommit ==
    \E v \in {"v1", "v2"} :
        ProcessPrecommit(
            PrecommitMsg(tm.current_height, tm.current_round, Some("H1"), v, SigOf(v)))

NextFields ==
    \/ FieldsSetPosition
    \/ FieldsProcessPrecommit
    \/ SpecCommitBlock
    \/ Reset

SpecFields == Init /\ [][NextFields]_vars

(***************************************************************************)
(* SpecNumber: a SimpleSharedNumber behind a registry                       *)
(***************************************************************************)
Payloads == (0 - MaxPayload)..MaxPayload

\* two messages (two ids) for each integer payload, and one message whose
\* data is not an integer
NumberMsgs ==
    {SharedMessage(id, JsonInt(v)) : id \in {1, 2}, v \in Payloads}
        \cup {SharedMessage(1, JsonFloat(1))}

NumberWithin(n) == Len(n.messages) <= MaxNumberMessages

NumberDispatch ==
    \E m \in NumberMsgs :
        /\ NumberWithin(number_dispatch(num, m))
        /\ num' = number_dispatch(num, m)
        /\ UNCHANGED <<tm, registry, node, sm, beacon>>

NumberAddMessage ==
    \E m \in NumberMsgs :
        /\ NumberWithin(number_add_message(num, m))
        /\ num' = number_add_message(num, m)
        /\ UNCHANGED <<tm, registry, node, sm, beacon>>

NumberReset ==
    /\ num' = number_reset(num)
    /\ UNCHANGED <<tm, registry, node, sm, beacon>>

NextNumber == NumberDispatch \/ NumberAddMessage \/ NumberReset

SpecNumber == Init /\ [][NextNumber]_vars

(***************************************************************************)
(* Claims about commit_block, add_message and the process_* methods         *)
(***************************************************************************)
\* C4: every successful commit_block(H) increases current_height by exactly
\* 1, sets current_round to 0 and state to Propose, clears locked_block and
\* locked_round, and appends exactly one block, which has hash H and the
\* height current_height had before the commit.
C4_CommitAdvancesHeight ==
    \A h \in Hashes :
        LET r == commit_block(tm, h)
        IN r.val = "Ok" =>
              /\ r.st.current_height = tm.current_height + 1
              /\ r.st.current_round = 0
              /\ r.st.state = "Propose"
              /\ r.st.locked_block = None
              /\ r.st.locked_round = None
              /\ Len(r.st.blocks) = Len(tm.blocks) + 1
              /\ SubSeq(r.st.blocks, 1, Len(tm.blocks)) = tm.blocks
              /\ Last(r.st.blocks).hash = h
              /\ Last(r.st.blocks).height = tm.current_height

\* a block was committed at height 5 from round 2, on top of genesis
C4_Witness ==
    /\ Len(tm.blocks) = 2
    /\ Last(tm.blocks).height = 5
    /\ tm.current_height = 6
    /\ tm.current_round = 0
    /\ DOMAIN Last(tm.blocks).commit_signatures # {}

\* C5: when messages arrive only through add_message, the call whose message
\* first gives a block hash H a strict supermajority of precommit power at
\* (current_height, current_round) commits H before it returns (the last
\* block has hash H, current_height is one more), so can_commit() is None
\* after every add_message.
C5_AddMessageCommitsOnQuorum ==
    /\ can_commit(tm) = {None}
    /\ \A m \in TendermintMsgs :
          LET p == process_arm(tm, m)
          IN (p.ok /\ can_commit(p.st) # {None}) =>
                \A r \in add_message(tm, m) :
                    /\ Some(Last(r.st.blocks).hash) \in can_commit(p.st)
                    /\ Len(r.st.blocks) = Len(tm.blocks) + 1
                    /\ r.st.current_height = tm.current_height + 1
                    /\ can_commit(r.st) = {None}

\* H1 was committed by add_message on the precommits of two validators
C5_Witness ==
    /\ Len(tm.blocks) = 2
    /\ Last(tm.blocks).hash = "H1"
    /\ DOMAIN Last(tm.blocks).commit_signatures = {SigOf("v1"), Forged}
    /\ tm.current_height = 2
    /\ DOMAIN tm.validators = {"v1", "v2"}

\* C6: commit_block(H) for an H without a precommit quorum at
\* (current_height, current_round) returns an error and leaves every field
\* of the object as it was.
C6_CommitWithoutQuorumIsError ==
    \A h \in Hashes :
        ~HoldsQuorum(tm, Some(h)) => commit_block(tm, h) = [st |-> tm, val |-> "Err"]

\* C7: a Proposal, Prevote or Precommit for another (height, round) than
\* (current_height, current_round) is not processed: process_proposal,
\* process_prevote and process_precommit return Ok(false), add_message
\* returns Ok(()), and no field of the object changes.
C7_StaleMessageIgnored ==
    \A m \in TendermintMsgs :
        Stale(tm, m) =>
            /\ process_proposal(tm, m) = [st |-> tm, ok |-> FALSE]
            /\ process_prevote(tm, m) = [st |-> tm, ok |-> FALSE]
            /\ process_precommit(tm, m) = [st |-> tm, ok |-> FALSE]
            /\ add_message(tm, m) = {[st |-> tm, val |-> "Ok", processed |-> FALSE]}

\* the object is at height 2 with votes recorded, and the messages for
\* (1, 0) and (1, 1) are stale
C7_Witness ==
    /\ tm.current_height = 2
    /\ tm.precommits # <<>>
    /\ tm.messages # <<>>
    /\ \E m \in PrecommitMsgs : Stale(tm, m)

\* C8: a Proposal, Prevote or Precommit whose signature does not verify
\* against the key of the validator it names is never stored in the proposal
\* or vote tables and never backs a committed block.
C8_UnverifiedNeverStored ==
    /\ \A k \in DOMAIN tm.proposals : MsgVerifies(tm.proposals[k])
    /\ \A k \in DOMAIN tm.prevotes : \A v \in DOMAIN tm.prevotes[k] :
          Verifies(tm.prevotes[k][v].validator, tm.prevotes[k][v].signature)
    /\ \A k \in DOMAIN tm.precommits : \A v \in DOMAIN tm.precommits[k] :
          Verifies(tm.precommits[k][v].validator, tm.precommits[k][v].signature)
    /\ \A i \in 1..Len(tm.blocks) : Forged \notin DOMAIN tm.blocks[i].commit_signatures

\* C10: add_message is idempotent under re-delivery: for every message and
\* every reachable state, the digest and the state after applying the message
\* twice are those after applying it once.
C10_AddMessageIdempotent ==
    \A m \in TendermintMsgs :
        \A r1 \in add_message(tm, m) :
            \A r2 \in add_message(r1.st, m) :
                /\ get_latest_digest(r2.st) = get_latest_digest(r1.st)
                /\ r2.st = r1.st

(***************************************************************************)
(* Claims about SimpleSharedNumber                                          *)
(***************************************************************************)
RECURSIVE DispatchTimes(_, _, _)
\* the object after k messages carrying the integer v were dispatched to it,
\* the messages having ids 1, 2, 1, ..
DispatchTimes(n, v, k) ==
    IF k = 0 THEN n
    ELSE number_dispatch(DispatchTimes(n, v, k - 1),
                         SharedMessage(1 + ((k + 1) % 2), JsonInt(v)))

\* the payload v has not been applied since creation or the last reset
Fresh(n, v) == calculate_message_hash(JsonInt(v)) \notin n.seen_hashes

PrecommitsFor(s, block_hash) ==
    [v \in {x \in DOMAIN CurrentPrecommits(s) :
                CurrentPrecommits(s)[x].block_hash = block_hash}
        |-> CurrentPrecommits(s)[v]]

\* C11: the block appended by a commit of hash H at (height, round) has as
\* commit_signatures exactly the signatures of the precommits recorded at that
\* (height, round) whose block_hash is H; signatures of precommits for another
\* hash or for nil are not included.  Stated for the hashes holding the quorum.
C11_CommitSignaturesOfWinningHash ==
    \A h \in Hashes :
        Some(h) \in can_commit(tm) =>
            Last(commit_block(tm, h).st.blocks).commit_signatures
                = Signatures(PrecommitsFor(tm, Some(h)))

\* C12: blocks[0] is the genesis block with height 0 and every later block's
\* previous_hash is the hash of the block committed immediately before it.
C12_BlocksLinked ==
    /\ tm.blocks[1] = genesis_block
    /\ tm.blocks[1].height = 0
    /\ \A i \in 2..Len(tm.blocks) : tm.blocks[i].previous_hash = tm.blocks[i - 1].hash

\* H1 then H2 were committed on top of genesis
C12_Witness ==
    /\ Len(tm.blocks) = 3
    /\ tm.blocks[2].hash = "H1"
    /\ tm.blocks[3].hash = "H2"
    /\ tm.blocks[3].previous_hash = "H1"

\* `a` is a prefix of `b`
IsPrefix(a, b) == Len(a) <= Len(b) /\ SubSeq(b, 1, Len(a)) = a

StoredKeys(s) == DOMAIN s.proposals \cup DOMAIN s.prevotes \cup DOMAIN s.precommits

\* C15: no key (h, r) with h < current_height is in proposals, prevotes or
\* precommits; every stored key equals (current_height, current_round); and
\* the three tables are empty immediately after a commit.
C15_NoStaleKeys ==
    /\ \A k \in StoredKeys(tm) : k[1] >= tm.current_height /\ k = CurrentKey(tm)
    /\ \A h \in Hashes : StoredKeys(commit_block(tm, h).st) = {}

\* a block was just committed on recorded precommits, and the tables are empty
C15_Witness ==
    /\ Len(tm.blocks) = 2
    /\ DOMAIN Last(tm.blocks).commit_signatures # {}
    /\ tm.current_height = 2
    /\ tm.messages # <<>>
    /\ StoredKeys(tm) = {}

(***************************************************************************)
(* SpecVotes: two validators prevote and precommit, again and again, at the *)
(* (height, round) the object is at                                         *)
(***************************************************************************)
Voters == {"v1", "v2"}

VotesAddValidator == \E a \in Voters : AddValidator(a, 100)

VotesProcessPrevote ==
    \E v \in Voters, bh \in OptionHashes :
        ProcessPrevote(PrevoteMsg(tm.current_height, tm.current_round, bh, v, SigOf(v)))

VotesProcessPrecommit ==
    \E v \in Voters, bh \in OptionHashes :
        ProcessPrecommit(
            PrecommitMsg(tm.current_height, tm.current_round, bh, v, SigOf(v)))

NextVotes == VotesAddValidator \/ VotesProcessPrevote \/ VotesProcessPrecommit

SpecVotes == Init /\ [][NextVotes]_vars

\* the places in the message log of the votes of `phase` that `validator`
\* cast at the object's current (height, round)
LoggedVotes(s, phase, validator) ==
    {i \in 1..Len(s.messages) :
        /\ s.messages[i].type = phase
        /\ s.messages[i].validator = validator
        /\ Key(s.messages[i].height, s.messages[i].round) = CurrentKey(s)}

\* the greatest element of a non-empty set of numbers
Greatest(set) == CHOOSE x \in set : \A y \in set : y <= x

\* the block hash of the latest vote of `phase` that `validator` cast
LatestHash(s, phase, validator) ==
    s.messages[Greatest(LoggedVotes(s, phase, validator))].block_hash

\* the votes of `phase` recorded at the current (height, round)
CurrentVotes(s, phase) ==
    LET table == IF phase = "Prevote" THEN s.prevotes ELSE s.precommits
    IN IF CurrentKey(s) \in DOMAIN table THEN table[CurrentKey(s)] ELSE <<>>

\* the power can_commit's tally gives to `block_hash` (0 when it has no entry)
TallyOf(s, block_hash) ==
    LET counts == vote_counts(s, CurrentVotes(s, "Precommit"))
    IN IF block_hash \in DOMAIN counts THEN counts[block_hash] ELSE 0

\* C14: for each phase and each (height, round) at most one vote per validator
\* is recorded; a second accepted vote of the same validator replaces the
\* earlier one, and only the latest vote's block hash counts in the tally.
C14_OneVotePerValidator ==
    /\ \A phase \in {"Prevote", "Precommit"} :
          LET votes == CurrentVotes(tm, phase)
          IN /\ DOMAIN votes = {v \in Voters : LoggedVotes(tm, phase, v) # {}}
             /\ \A v \in DOMAIN votes :
                   /\ votes[v].validator = v
                   /\ votes[v].block_hash = LatestHash(tm, phase, v)
    /\ \A k \in OptionHashes :
          TallyOf(tm, k) =
              SumPower(tm.validators,
                       {v \in DOMAIN tm.validators :
                           /\ LoggedVotes(tm, "Precommit", v) # {}
                           /\ LatestHash(tm, "Precommit", v) = k})

\* v1, a registered validator, precommitted H1 and then H2: its one recorded
\* precommit is for H2, which alone has its power in the tally
C14_Witness ==
    /\ "v1" \in DOMAIN tm.validators
    /\ Cardinality(LoggedVotes(tm, "Precommit", "v1")) = 2
    /\ tm.messages[1].block_hash = Some("H1")
    /\ DOMAIN CurrentVotes(tm, "Precommit") = {"v1"}
    /\ CurrentVotes(tm, "Precommit")["v1"].block_hash = Some("H2")
    /\ TallyOf(tm, Some("H1")) = 0
    /\ TallyOf(tm, Some("H2")) = 100

(***************************************************************************)
(* SpecActive: validators whose public `active` flag a caller clears or     *)
(* sets, and precommits at the (height, round) the object is at             *)
(***************************************************************************)
\* a caller's write to the public field validators[address].active
SetActive(address, active) ==
    /\ address \in DOMAIN tm.validators
    /\ tm' = [tm EXCEPT !.validators[address].active = active]
    /\ UNCHANGED <<num, registry, node, sm, beacon>>

ActiveAddValidator == \E a \in Addresses : AddValidator(a, 100)

ActiveSetActive == \E a \in Addresses, b \in BOOLEAN : SetActive(a, b)

ActiveProcessPrecommit ==
    \E v \in Addresses, bh \in {None, Some("H1")} :
        ProcessPrecommit(
            PrecommitMsg(tm.current_height, tm.current_round, bh, v, SigOf(v)))

NextActive == ActiveAddValidator \/ ActiveSetActive \/ ActiveProcessPrecommit

SpecActive == Init /\ [][NextActive]_vars

\* the summed voting power of the active validators whose recorded precommit
\* at the current (height, round) is for `block_hash` (an Option)
ActivePrecommitPower(s, block_hash) ==
    SumPower(s.validators,
             {a \in DOMAIN s.validators :
                 /\ s.validators[a].active
                 /\ a \in DOMAIN CurrentPrecommits(s)
                 /\ CurrentPrecommits(s)[a].block_hash = block_hash})

\* C16: a validator whose active flag is false is excluded from
\* total_voting_power() and from every candidate's tally in can_commit(): its
\* precommit adds no power to a block hash and never helps it reach quorum.
C16_InactiveExcluded ==
    /\ total_voting_power(tm) = TotalActivePower(tm)
    /\ \A k \in OptionHashes : TallyOf(tm, k) = ActivePrecommitPower(tm, k)
    /\ \A h \in Hashes :
          Some(h) \in can_commit(tm) =>
              ActivePrecommitPower(tm, Some(h)) * 3 > TotalActivePower(tm) * 2

(***************************************************************************)
(* SpecUpdates: the validator set is updated, by add_validator and by       *)
(* ValidatorSet messages, before and after precommits are recorded          *)
(***************************************************************************)
\* the validator lists of the ValidatorSet messages
UpdateLists ==
    ValidatorLists \cup {<<ValidatorInfo("v2", PublicKeyOf("v2"), 150, TRUE)>>}

\* the height field of the ValidatorSet messages: before, at and after the
\* height the object is at
UpdateHeights == {0, 1, 7}

UpdateMsgs == {ValidatorSetMsg(list, h) : list \in UpdateLists, h \in UpdateHeights}

UpdatesAddValidator == \E a \in Addresses, p \in VotingPowers : AddValidator(a, p)

UpdatesProcessPrecommit ==
    \E v \in Voters :
        ProcessPrecommit(
            PrecommitMsg(tm.current_height, tm.current_round, Some("H1"), v, SigOf(v)))

UpdatesAddMessage == \E m \in UpdateMsgs : AddMessage(m)

NextUpdates == UpdatesAddValidator \/ UpdatesProcessPrecommit \/ UpdatesAddMessage

SpecUpdates == Init /\ [][NextUpdates]_vars

\* the validator map after the entries of `list` (with distinct addresses)
\* were merged into it: listed addresses inserted or overwritten, the others
\* as they were
MergedValidators(validators, list) ==
    LET listed == {list[i].address : i \in 1..Len(list)}
        entry(a) == list[CHOOSE i \in 1..Len(list) : list[i].address = a]
    IN [a \in DOMAIN validators \cup listed |->
           IF a \in listed
           THEN ValidatorInfo(a, entry(a).public_key, entry(a).voting_power, TRUE)
           ELSE validators[a]]

\* can_commit(s) decides by the validator map s holds now
DecidesOnLiveMap(s) ==
    /\ total_voting_power(s) = TotalActivePower(s)
    /\ \A h \in Hashes : (Some(h) \in can_commit(s)) <=> HoldsQuorum(s, Some(h))

\* C17: quorum is evaluated against the validator map as it is at the moment
\* of the check: add_validator, and a ValidatorSet message with any height,
\* merge at any time, inserting or overwriting only the listed addresses, and
\* the next can_commit() uses the new powers and total.
C17_QuorumOnLiveValidatorMap ==
    /\ \A a \in Addresses, p \in VotingPowers :
          LET s2 == add_validator(tm, a, PublicKeyOf(a), p)
          IN /\ s2 = [tm EXCEPT !.validators = MergedValidators(
                         @, <<ValidatorInfo(a, PublicKeyOf(a), p, TRUE)>>)]
             /\ DecidesOnLiveMap(s2)
    /\ \A m \in UpdateMsgs :
          LET merged == [tm EXCEPT !.validators = MergedValidators(@, m.validators)]
          IN /\ DecidesOnLiveMap(merged)
             /\ \A r \in add_message(tm, m) :
                   /\ r.st.validators = merged.validators
                   /\ IF \E h \in Hashes : HoldsQuorum(merged, Some(h))
                      THEN /\ Len(r.st.blocks) = Len(tm.blocks) + 1
                           /\ HoldsQuorum(merged, Some(Last(r.st.blocks).hash))
                      ELSE r.st = merged

\* v1 (power 100) is the only validator and v1 and v2 precommitted H1, a
\* quorum; registering v3 (100) leaves H1 without quorum, and a ValidatorSet
\* message for height 7 that then lists v2 (150) commits H1
C17_Witness ==
    LET s2 == add_validator(tm, "v3", PublicKeyOf("v3"), 100)
        m == ValidatorSetMsg(<<ValidatorInfo("v2", PublicKeyOf("v2"), 150, TRUE)>>, 7)
    IN /\ DOMAIN tm.validators = {"v1"}
       /\ DOMAIN CurrentPrecommits(tm) = {"v1", "v2"}
       /\ can_commit(tm) = {Some("H1")}
       /\ can_commit(s2) = {None}
       /\ \A r \in add_message(s2, m) :
             /\ Len(r.st.blocks) = Len(tm.blocks) + 1
             /\ Last(r.st.blocks).hash = "H1"

(***************************************************************************)
(* SpecRegistry: SimpleSharedNumber and ChatroomObject objects are          *)
(* registered in and removed from a registry, and messages are dispatched   *)
(* to it                                                                    *)
(***************************************************************************)
\* the ids of the objects (SharedObjectId::new() draws a fresh one for every
\* object)
ObjectIds == {"o1", "o2", "o3"}

ObjectTypes == {"SimpleSharedNumber", "ChatroomObject"}

\* SimpleSharedNumber::new / ChatroomObject::new, boxed
NewObject(type_name) ==
    IF type_name = "SimpleSharedNumber" THEN Object(type_name, NumberNew)
    ELSE Object(type_name, ChatroomNew)

\* chatroom messages: k1 creates "room" (once signed, once with a signature
\* that is not hexadecimal), posts to it and accepts k2, and k2 posts
ChatMsgs ==
    {ChatroomMsg("CREATE_CHATROOM", "room", "k1", None, None, "recent", SigOf("k1")),
     ChatroomMsg("CREATE_CHATROOM", "room", "k1", None, None, "recent", NotHex),
     ChatroomMsg("POST_MESSAGE", "room", "k1", None, Some("hi"), "recent", SigOf("k1")),
     ChatroomMsg("ACCEPT_MEMBER", "room", "k1", Some("k2"), None, "recent", SigOf("k1")),
     ChatroomMsg("POST_MESSAGE", "room", "k2", None, Some("hi"), "recent", SigOf("k2"))}

\* the messages dispatched: two integers, a number that is not an integer,
\* and the chatroom messages
RegistryMsgs ==
    {SharedMessage(1, JsonInt(1)), SharedMessage(2, JsonInt(2)),
     SharedMessage(3, JsonFloat(1))}
        \cup {SharedMessage(4, JsonChat(m)) : m \in ChatMsgs}

\* the model follows a registry while the chatrooms of its objects are within
\* the bound
RegistryWithin(r) ==
    \A id \in DOMAIN r.objects :
        r.objects[id].type_name = "ChatroomObject" =>
            \A name \in DOMAIN r.objects[id].st.chatrooms :
                Len(r.objects[id].st.chatrooms[name].messages) <= MaxRoomMessages

RegistryRegister ==
    \E id \in ObjectIds \ DOMAIN registry.objects, type_name \in ObjectTypes :
        /\ registry' = register(registry, id, NewObject(type_name))
        /\ UNCHANGED <<tm, num, node, sm, beacon>>

RegistryRemove ==
    \E id \in DOMAIN registry.objects :
        /\ registry' = remove(registry, id)
        /\ UNCHANGED <<tm, num, node, sm, beacon>>

RegistryProcessMessage ==
    \E m \in RegistryMsgs :
        \E r \in process_message(registry, m) :
            /\ RegistryWithin(r.st)
            /\ registry' = r.st
            /\ UNCHANGED <<tm, num, node, sm, beacon>>

NextRegistry == RegistryRegister \/ RegistryRemove \/ RegistryProcessMessage

SpecRegistry == Init /\ [][NextRegistry]_vars

(***************************************************************************)
(* Claims about ApplicationObjectRegistry::process_message                  *)
(***************************************************************************)
\* the elements of a sequence
Range(seq) == {seq[i] : i \in 1..Len(seq)}

\* no element occurs twice in the sequence
NoRepeats(seq) == Cardinality(Range(seq)) = Len(seq)

\* the registered objects whose is_valid(message) is true
ValidIds(r, message) ==
    {id \in DOMAIN r.objects : object_is_valid(r.objects[id], message)}

C19_ErrorDoesNotStopSiblings ==
    \A m \in RegistryMsgs :
        \A r \in process_message(registry, m) :
            /\ (\E id \in ValidIds(registry, m) :
                    object_add_message(registry.objects[id], m).val = "Err")
                  => r.val = "Err"
            /\ Range(r.called) = ValidIds(registry, m)

\* the place of an element in a sequence without repeats
IndexOf(seq, x) == CHOOSE i \in 1..Len(seq) : seq[i] = x

\* C20: process_message visits the registered objects in registration order:
\* if A was registered before B and both accept m, A's add_message for m runs
\* before B's and the returned id list has A before B.  Stated for objects of
\* one type, whose registration order objects_by_type keeps.
C20_RegistrationOrder ==
    \A m \in RegistryMsgs :
        \A r \in process_message(registry, m) :
            \A type_name \in DOMAIN registry.objects_by_type :
                LET type_list == registry.objects_by_type[type_name]
                IN \A i, j \in 1..Len(type_list) :
                      (/\ i < j
                       /\ type_list[i] \in Range(r.called)
                       /\ type_list[j] \in Range(r.called))
                      => /\ IndexOf(r.called, type_list[i]) < IndexOf(r.called, type_list[j])
                         /\ r.val = "Ok" =>
                               IndexOf(r.ids, type_list[i]) < IndexOf(r.ids, type_list[j])

(***************************************************************************)
(* SpecTasks: two tasks dispatch messages to the registry of one node,      *)
(* step by step: a task stores its message, waits for the write lock of     *)
(* app_objects, visits the objects one by one and drops the lock            *)
(***************************************************************************)
\* the data of the messages the tasks create
TaskData == {JsonInt(1), JsonInt(2), JsonFloat(1)}

\* the ids of the SimpleSharedNumber objects added to the node
TaskObjectIds == {"o1", "o2"}

\* the task holds the write lock of app_objects
InDispatch(n, t) == n.tasks[t].pc \in {"dispatching", "in_add"}

TaskAddSharedObject ==
    \E id \in TaskObjectIds \ DOMAIN node.app_objects.objects :
        /\ can_acquire(node)
        /\ node' = add_shared_object(node, id, NewObject("SimpleSharedNumber"))
        /\ UNCHANGED <<tm, num, registry, sm, beacon>>

\* SharedMessage::new and self.storage.put(..).await
TaskCreate(t) ==
    \E data \in TaskData :
        LET message == SharedMessage(node.created + 1, data)
        IN /\ node.tasks[t].pc = "idle"
           /\ node.created < MaxDispatches
           /\ node' = [node EXCEPT
                         !.created = @ + 1,
                         !.storage = storage_put(@, MessageHash(message),
                                                 MessageJson(message)),
                         !.tasks[t] = [pc |-> "waiting", message |-> Some(message),
                                       ids |-> <<>>, processed_objects |-> <<>>]]
           /\ UNCHANGED <<tm, num, registry, sm, beacon>>

\* self.app_objects.write().await returns, and process_message collects the
\* keys
TaskAcquire(t) ==
    \E order \in KeyOrders(DOMAIN node.app_objects.objects) :
        /\ node.tasks[t].pc = "waiting"
        /\ can_acquire(node)
        /\ node' = [node EXCEPT
                      !.write_lock = Some(t),
                      !.serial = dispatch(@, node.tasks[t].message[1], order,
                                          <<>>, <<>>).st,
                      !.tasks[t].pc = "dispatching",
                      !.tasks[t].ids = order]
        /\ UNCHANGED <<tm, num, registry, sm, beacon>>

\* is_valid returned false for the next object
TaskSkip(t) ==
    /\ node.tasks[t].pc = "dispatching"
    /\ node.tasks[t].ids # <<>>
    /\ ~object_is_valid(node.app_objects.objects[Head(node.tasks[t].ids)],
                        node.tasks[t].message[1])
    /\ node' = [node EXCEPT !.tasks[t].ids = Tail(@)]
    /\ UNCHANGED <<tm, num, registry, sm, beacon>>

\* is_valid returned true for the next object and its add_message is entered
TaskBeginAdd(t) ==
    /\ node.tasks[t].pc = "dispatching"
    /\ node.tasks[t].ids # <<>>
    /\ object_is_valid(node.app_objects.objects[Head(node.tasks[t].ids)],
                       node.tasks[t].message[1])
    /\ node' = [node EXCEPT !.tasks[t].pc = "in_add"]
    /\ UNCHANGED <<tm, num, registry, sm, beacon>>

\* add_message returns: on Err the `?` leaves process_message and the lock
\* is dropped
TaskEndAdd(t) ==
    LET id == Head(node.tasks[t].ids)
        a == object_add_message(node.app_objects.objects[id], node.tasks[t].message[1])
    IN /\ node.tasks[t].pc = "in_add"
       /\ node' = IF a.val = "Err"
                  THEN [node EXCEPT !.app_objects.objects[id] = a.st,
                                    !.write_lock = None,
                                    !.tasks[t] = TaskIdle(node.tasks[t].message)]
                  ELSE [node EXCEPT !.app_objects.objects[id] = a.st,
                                    !.tasks[t].pc = "dispatching",
                                    !.tasks[t].ids = Tail(@),
                                    !.tasks[t].processed_objects = Append(@, id)]
       /\ UNCHANGED <<tm, num, registry, sm, beacon>>

\* process_message returned Ok and the write guard is dropped
TaskRelease(t) ==
    /\ node.tasks[t].pc = "dispatching"
    /\ node.tasks[t].ids = <<>>
    /\ node' = [node EXCEPT !.write_lock = None,
                            !.tasks[t] = TaskIdle(node.tasks[t].message)]
    /\ UNCHANGED <<tm, num, registry, sm, beacon>>

NextTasks ==
    \/ TaskAddSharedObject
    \/ \E t \in Tasks : TaskCreate(t)
    \/ \E t \in Tasks : TaskAcquire(t)
    \/ \E t \in Tasks : TaskSkip(t)
    \/ \E t \in Tasks : TaskBeginAdd(t)
    \/ \E t \in Tasks : TaskEndAdd(t)
    \/ \E t \in Tasks : TaskRelease(t)

SpecTasks == Init /\ [][NextTasks]_vars

\* C21: when several tasks dispatch concurrently to one node's registry, the
\* add_message calls on any one object never overlap, and whenever no
\* dispatch is under way every object is in the state that applying the
\* dispatched messages one after another, in the order the lock was taken,
\* gives (no lost or half-applied update).
C21_DispatchesSerialized ==
    /\ \A t1, t2 \in Tasks :
          (t1 # t2 /\ node.tasks[t1].pc = "in_add" /\ node.tasks[t2].pc = "in_add")
              => Head(node.tasks[t1].ids) # Head(node.tasks[t2].ids)
    /\ \A t1, t2 \in Tasks : (InDispatch(node, t1) /\ InDispatch(node, t2)) => t1 = t2
    /\ (\A t \in Tasks : ~InDispatch(node, t)) => node.app_objects = node.serial

\* both objects hold the payload of one finished dispatch, task t1 is inside
\* add_message of another dispatch and task t2 waits for the lock
C21_Witness ==
    /\ DOMAIN node.app_objects.objects = TaskObjectIds
    /\ \A id \in TaskObjectIds : Len(node.app_objects.objects[id].st.messages) = 1
    /\ node.tasks["t1"].pc = "in_add"
    /\ node.tasks["t2"].pc = "waiting"

(***************************************************************************)
(* SpecIndex: register, remove and clear on one registry; an object handed  *)
(* to register is a new one or the clone_box of a registered one            *)
(***************************************************************************)
IndexWithin(r) ==
    \A type_name \in DOMAIN r.objects_by_type :
        Len(r.objects_by_type[type_name]) <= MaxTypeList

IndexRegister ==
    \E id \in ObjectIds \ DOMAIN registry.objects, type_name \in ObjectTypes :
        /\ registry' = register(registry, id, NewObject(type_name))
        /\ IndexWithin(registry')
        /\ UNCHANGED <<tm, num, node, sm, beacon>>

IndexRegisterClone ==
    \E id \in DOMAIN registry.objects :
        /\ registry' = register(registry, id, object_clone_box(registry.objects[id]))
        /\ IndexWithin(registry')
        /\ UNCHANGED <<tm, num, node, sm, beacon>>

IndexRemove ==
    \E id \in ObjectIds :
        /\ registry' = remove(registry, id)
        /\ UNCHANGED <<tm, num, node, sm, beacon>>

IndexClear ==
    /\ registry' = clear(registry)
    /\ UNCHANGED <<tm, num, node, sm, beacon>>

NextIndex == IndexRegister \/ IndexRegisterClone \/ IndexRemove \/ IndexClear

SpecIndex == Init /\ [][NextIndex]_vars

\* the ids listed in the type index
IndexedIds(r) ==
    UNION {Range(r.objects_by_type[type_name]) : type_name \in DOMAIN r.objects_by_type}

\* C22: after any sequence of register, remove and clear the ids listed in
\* objects_by_type are exactly the keys of objects, each id is listed exactly
\* once and under its own object's type_name, and a type with no remaining
\* ids has no entry.
C22_TypeIndexConsistent ==
    /\ IndexedIds(registry) = DOMAIN registry.objects
    /\ \A type_name \in DOMAIN registry.objects_by_type :
          /\ registry.objects_by_type[type_name] # <<>>
          /\ NoRepeats(registry.objects_by_type[type_name])
          /\ \A id \in Range(registry.objects_by_type[type_name]) :
                id \in DOMAIN registry.objects =>
                    registry.objects[id].type_name = type_name

(***************************************************************************)
(* SpecWire: one SharedMessage is built, signed (its pub signature field    *)
(* can also be written), and sent through to_json and from_json             *)
(***************************************************************************)
\* Uuid::new_v4() and Utc::now() as read by the constructors
MessageIds == {"uuid1", "uuid2"}

Timestamps == {"T1", "T2"}

\* names of Custom kinds: the text of a well-known kind, and two names one
\* of which continues the other with a digit
CustomNames == {<<"G", "E", "T">>, <<"x">>, <<"x", "1">>}

\* the kinds of the messages built
MessageTypes ==
    {WellKnown("Get"), WellKnown("Set"), WellKnown("PeerDiscovery")}
        \cup {Custom(name) : name \in CustomNames}

\* the data of the messages built
WireData == {JsonInt(1), JsonInt(2), JsonInt(12), JsonFloat(1)}

\* two Ed25519 key pairs and one Secp256k1 key pair
KeyPairs ==
    {KeyPair("Ed25519", "a"), KeyPair("Ed25519", "b"), KeyPair("Secp256k1", "c")}

\* signature bytes of a length no scheme has
ShortSignature == [len |-> 10, key |-> "none", message |-> <<>>]

WireNew ==
    \E id \in MessageIds, message_type \in MessageTypes, data \in WireData,
       timestamp \in Timestamps :
        /\ sm.message = None
        /\ sm' = [message |-> Some(message_new(id, message_type, data, timestamp)),
                  signed |-> 0, decoded |-> FALSE]
        /\ UNCHANGED <<tm, num, registry, node, beacon>>

WireNewWithTarget ==
    \E id \in MessageIds, message_type \in MessageTypes, target_id \in ObjectIds,
       data \in WireData, timestamp \in Timestamps :
        /\ sm.message = None
        /\ sm' = [message |-> Some(message_new_with_target(id, message_type, target_id,
                                                           data, timestamp)),
                  signed |-> 0, decoded |-> FALSE]
        /\ UNCHANGED <<tm, num, registry, node, beacon>>

WireCustom ==
    \E id \in MessageIds, name \in CustomNames, data \in WireData,
       timestamp \in Timestamps :
        /\ sm.message = None
        /\ sm' = [message |-> Some(message_custom(id, name, data, timestamp)),
                  signed |-> 0, decoded |-> FALSE]
        /\ UNCHANGED <<tm, num, registry, node, beacon>>

WireSign ==
    \E private_key \in KeyPairs :
        /\ sm.message # None
        /\ sm.signed < MaxSignings
        /\ sm' = [sm EXCEPT !.message = Some(sign(sm.message[1], private_key)),
                            !.signed = @ + 1]
        /\ UNCHANGED <<tm, num, registry, node, beacon>>

\* a write of the pub field signature
WireSetSignature ==
    /\ sm.message # None
    /\ sm' = [sm EXCEPT !.message = Some([sm.message[1] EXCEPT
                                             !.signature = Some(ShortSignature)])]
    /\ UNCHANGED <<tm, num, registry, node, beacon>>

\* to_json and from_json of the result
WireRoundTrip ==
    /\ sm.message # None
    /\ from_json(to_json(sm.message[1])) # None
    /\ sm' = [sm EXCEPT !.message = from_json(to_json(sm.message[1])),
                        !.decoded = TRUE]
    /\ UNCHANGED <<tm, num, registry, node, beacon>>

NextWire ==
    \/ WireNew
    \/ WireNewWithTarget
    \/ WireCustom
    \/ WireSign
    \/ WireSetSignature
    \/ WireRoundTrip

SpecWire == Init /\ [][NextWire]_vars

\* C23: verify_hash() is true for every message returned by new,
\* new_with_target or custom, and false after any one of id, message_type,
\* data, timestamp is changed to a different value without recomputing hash,
\* including a change between a well-known kind and a Custom kind and a move
\* of characters between the kind name and the payload text.
C23_HashBindsFields ==
    sm.message # None =>
        LET m == sm.message[1]
        IN /\ verify_hash(m)
           /\ \A id \in MessageIds \ {m.id} : ~verify_hash([m EXCEPT !.id = id])
           /\ \A message_type \in MessageTypes \ {m.message_type} :
                 ~verify_hash([m EXCEPT !.message_type = message_type])
           /\ \A data \in WireData \ {m.data} : ~verify_hash([m EXCEPT !.data = data])
           /\ \A timestamp \in Timestamps \ {m.timestamp} :
                 ~verify_hash([m EXCEPT !.timestamp = timestamp])
           /\ \A message_type \in MessageTypes, data \in WireData :
                 (message_type # m.message_type /\ data # m.data)
                     => ~verify_hash([m EXCEPT !.message_type = message_type,
                                               !.data = data])

\* C24: for every message m, signed before or not, and every key pair, after
\* m.sign(sk) the call verify_signature(pk) returns Ok(true), and Ok(false)
\* when a signed field (any field but the signature) is changed afterwards or
\* another key of the same scheme is used; signing leaves id, kind, payload,
\* timestamp and hash unchanged, so verify_hash() stays true.
C24_SignThenVerify ==
    sm.message # None =>
        \A private_key \in KeyPairs :
            LET m == sm.message[1]
                s == sign(m, private_key)
            IN /\ verify_signature(s, private_key) = "Ok(true)"
               /\ \A public_key \in KeyPairs :
                     (public_key.scheme = private_key.scheme /\ public_key # private_key)
                         => verify_signature(s, public_key) = "Ok(false)"
               /\ \A id \in MessageIds \ {s.id} :
                     verify_signature([s EXCEPT !.id = id], private_key) = "Ok(false)"
               /\ \A message_type \in MessageTypes \ {s.message_type} :
                     verify_signature([s EXCEPT !.message_type = message_type],
                                      private_key) = "Ok(false)"
               /\ \A data \in WireData \ {s.data} :
                     verify_signature([s EXCEPT !.data = data], private_key) = "Ok(false)"
               /\ \A timestamp \in Timestamps \ {s.timestamp} :
                     verify_signature([s EXCEPT !.timestamp = timestamp],
                                      private_key) = "Ok(false)"
               /\ [s EXCEPT !.signature = m.signature] = m
               /\ verify_hash(m) => verify_hash(s)

\* C25: verify_signature on a message that carries no signature fails with an
\* error instead of returning a boolean, and it fails with an error when the
\* length of the signature does not match the scheme of the public key.
C25_VerifyFailsWithoutSignature ==
    sm.message # None =>
        \A public_key \in KeyPairs :
            LET m == sm.message[1]
            IN /\ m.signature = None => verify_signature(m, public_key) = "Err"
               /\ (m.signature # None /\ m.signature[1].len # 64)
                     => verify_signature(m, public_key) = "Err"

\* every kind: the twelve well-known ones and the Custom names
AllMessageTypes ==
    {WellKnown(kind) : kind \in WellKnownKinds} \cup {Custom(name) : name \in CustomNames}

\* C26: deserializing the serialization of any MessageType yields it; a
\* well-known kind serializes as its token string and Custom(s) as the
\* object {"Custom": s}, and both forms are accepted on input; a message
\* encoded with to_json and decoded with from_json equals the original.
C26_WireRoundTrip ==
    /\ \A message_type \in AllMessageTypes :
          deserialize(serialize(message_type)) = Some(message_type)
    /\ \A kind \in WellKnownKinds :
          /\ serialize(WellKnown(kind)) = JsonStr(Token(kind))
          /\ deserialize(JsonStr(Token(kind))) = Some(WellKnown(kind))
    /\ \A name \in CustomNames :
          /\ serialize(Custom(name)) = JsonObject("Custom", JsonStr(name))
          /\ deserialize(JsonObject("Custom", JsonStr(name))) = Some(Custom(name))
    /\ sm.message # None =>
          LET m == sm.message[1]
              decoded == from_json(to_json(m))
          IN /\ decoded # None
             /\ message_eq(decoded[1], m)
             /\ decoded[1].message_type = m.message_type

\* a signed message to a target whose kind is Custom("GET") has been through
\* to_json and from_json
C26_Witness ==
    /\ sm.decoded
    /\ sm.message # None
    /\ sm.message[1].message_type = Custom(<<"G", "E", "T">>)
    /\ sm.message[1].signature # None
    /\ sm.message[1].target_id # None

(***************************************************************************)
(* Claims about reset and clone_box                                         *)
(***************************************************************************)
\* after reset the TendermintObject has the fields of a new one
TendermintResetIsNew ==
    LET r == reset(tm)
    IN /\ r.current_height = 1
       /\ r.current_round = 0
       /\ r.state = "Propose"
       /\ r.proposals = <<>>
       /\ r.prevotes = <<>>
       /\ r.precommits = <<>>
       /\ r.messages = <<>>
       /\ r.blocks = <<genesis_block>>

\* after reset the SimpleSharedNumber is empty and applies every value again
NumberResetIsNew ==
    LET r == number_reset(num)
    IN /\ r.number = 0
       /\ r.messages = <<>>
       /\ r.seen_hashes = {}
       /\ \A v \in Payloads :
             number_add_message(r, SharedMessage(1, JsonInt(v))).number = v

\* C27: after reset() a Tendermint object has current_height = 1,
\* current_round = 0, state = Propose, empty proposals, prevotes, precommits
\* and messages and a block list holding only the genesis block, and a
\* SimpleSharedNumber has number 0, no stored messages and no remembered
\* payloads, so a value seen before is applied again.
C27_ResetRestoresInitial == TendermintResetIsNew /\ NumberResetIsNew

\* the clone of the TendermintObject shows the state the original shows
TendermintCloneShowsOriginal ==
    /\ get_state(clone_box(tm)) = get_state(tm)
    /\ get_latest_digest(clone_box(tm)) = get_latest_digest(tm)

\* the clone of the SimpleSharedNumber shows the state the original shows,
\* and a message applied to it gives what the original would give
NumberCloneShowsOriginal ==
    /\ number_get_state(number_clone_box(num)) = number_get_state(num)
    /\ number_get_latest_digest(number_clone_box(num)) = number_get_latest_digest(num)
    /\ \A m \in NumberMsgs :
          number_dispatch(number_clone_box(num), m) = number_dispatch(num, m)

\* C28: clone_box() returns a copy whose observable state (get_state,
\* get_latest_digest) equals the original's at the moment of the call, for
\* every object kind.
C28_CloneBoxCopies == TendermintCloneShowsOriginal /\ NumberCloneShowsOriginal

(***************************************************************************)
(* SpecNode: one caller starts and stops a node, adds objects to it and     *)
(* dispatches messages                                                      *)
(***************************************************************************)
NodeStart ==
    /\ node' = node_start(node)
    /\ UNCHANGED <<tm, num, registry, sm, beacon>>

NodeStop ==
    /\ node' = node_stop(node)
    /\ UNCHANGED <<tm, num, registry, sm, beacon>>

NodeClose ==
    /\ node' = node_close(node)
    /\ UNCHANGED <<tm, num, registry, sm, beacon>>

NodeCreateSharedMessageWithData ==
    \E data \in TaskData :
        \E outcome \in create_shared_message_with_data(node, data) :
            /\ node.created < MaxDispatches
            /\ node' = outcome.st
            /\ UNCHANGED <<tm, num, registry, sm, beacon>>

NextNode ==
    \/ NodeStart
    \/ NodeStop
    \/ NodeClose
    \/ TaskAddSharedObject
    \/ NodeCreateSharedMessageWithData

SpecNode == Init /\ [][NextNode]_vars

\* C29: once the node has been closed (close or stop) and until it is started
\* again, create_shared_message_with_data returns an error and the state of
\* no registered object changes.
C29_ClosedNodeRejectsDispatch ==
    node.closed =>
        \A data \in TaskData :
            \A outcome \in create_shared_message_with_data(node, data) :
                /\ outcome.val = "Err"
                /\ outcome.st.app_objects = node.app_objects

(***************************************************************************)
(* SpecStorage: put, delete and clear on the MemoryStorage of a node        *)
(***************************************************************************)
StorageKeys == {"k1", "k2"}

\* Vec<u8> values: the empty one and two others
StorageValues == {<<>>, <<1>>, <<2>>}

StoragePut ==
    \E key \in StorageKeys, value \in StorageValues :
        /\ Len(node.log) < MaxStorageCalls
        /\ node' = [node EXCEPT !.storage = storage_put(@, key, value),
                                !.log = Append(@, <<"put", key, value>>)]
        /\ UNCHANGED <<tm, num, registry, sm, beacon>>

StorageDelete ==
    \E key \in StorageKeys :
        /\ Len(node.log) < MaxStorageCalls
        /\ node' = [node EXCEPT !.storage = storage_delete(@, key),
                                !.log = Append(@, <<"delete", key>>)]
        /\ UNCHANGED <<tm, num, registry, sm, beacon>>

StorageClear ==
    /\ Len(node.log) < MaxStorageCalls
    /\ node' = [node EXCEPT !.storage = storage_clear(@),
                            !.log = Append(@, <<"clear">>)]
    /\ UNCHANGED <<tm, num, registry, sm, beacon>>

NextStorage == StoragePut \/ StorageDelete \/ StorageClear

SpecStorage == Init /\ [][NextStorage]_vars

\* the value of the most recent put(key, v) of the log that no delete(key)
\* and no clear() follows, None when there is none
RECURSIVE LastPut(_, _)
LastPut(log, key) ==
    IF log = <<>> THEN None
    ELSE LET call == log[Len(log)]
             before == SubSeq(log, 1, Len(log) - 1)
         IN IF call[1] = "clear" THEN None
            ELSE IF call[2] # key THEN LastPut(before, key)
            ELSE IF call[1] = "put" THEN Some(call[3])
            ELSE None

\* C30: after any sequence of put, delete and clear, get(k) returns the value
\* of the most recent put(k, v) not followed by delete(k) or clear() (an empty
\* value is a present value) and None otherwise, and exists(k) is true
\* exactly when get(k) is not None.
C30_StorageIsAMap ==
    \A key \in StorageKeys :
        /\ storage_get(node.storage, key) = LastPut(node.log, key)
        /\ storage_exists(node.storage, key) <=> storage_get(node.storage, key) # None

\* k1 was put twice and holds the empty value, k2 was put and then deleted
C30_Witness ==
    /\ Len(node.log) = 4
    /\ \E v \in StorageValues \ {<<>>} :
          /\ node.log[1] = <<"put", "k1", v>>
          /\ node.log[2] = <<"put", "k2", v>>
    /\ node.log[3] = <<"put", "k1", <<>>>>
    /\ node.log[4] = <<"delete", "k2">>
    /\ storage_get(node.storage, "k1") = Some(<<>>)
    /\ ~storage_exists(node.storage, "k2")

(***************************************************************************)
(* SpecBeacon: a RandomnessBeaconObject receives messages through           *)
(* add_message, and its public methods are called directly                  *)
(***************************************************************************)
BeaconValidators == {"b1", "b2"}

\* thresholds of the beacons constructed
Thresholds == {1, 2}

\* each validator's proof, partial signature and registration sent for the
\* round, and an informational FinalizedBeacon
BeaconMsgs(round) ==
    {BeaconMsg("VrfProof", round, v, <<"output", v, round>>) : v \in BeaconValidators}
    \cup {BeaconMsg("PartialSignature", round, v, <<"partial_sig", v>>) :
             v \in BeaconValidators}
    \cup {BeaconMsg("ValidatorRegistration", round, v, <<>>) : v \in BeaconValidators}
    \cup {BeaconMsg("FinalizedBeacon", round, "b1", <<>>)}

\* the rounds messages are sent for: the current one and the next
BeaconRoundsSent(b) == {b.current_round, b.current_round + 1}

\* the number of proofs in the Vecs of pending_vrf_proofs under the keys
RECURSIVE PendingProofs(_, _)
PendingProofs(b, keys) ==
    IF keys = {} THEN 0
    ELSE LET k == CHOOSE x \in keys : TRUE
         IN Len(b.pending_vrf_proofs[k]) + PendingProofs(b, keys \ {k})

\* the number of proofs in the finalized rounds under the keys
RECURSIVE FinalizedProofs(_, _)
FinalizedProofs(b, keys) ==
    IF keys = {} THEN 0
    ELSE LET k == CHOOSE x \in keys : TRUE
         IN Len(b.rounds[k].vrf_proofs) + FinalizedProofs(b, keys \ {k})

\* the model follows the beacon while the proofs it holds are within the
\* bound
BeaconWithin(b) ==
    PendingProofs(b, DOMAIN b.pending_vrf_proofs) + FinalizedProofs(b, DOMAIN b.rounds)
        <= MaxProofs

BeaconCreate ==
    \E threshold \in Thresholds :
        /\ beacon' = BeaconNew(threshold)
        /\ UNCHANGED <<tm, num, registry, node, sm>>

BeaconRegisterValidator ==
    \E address \in BeaconValidators :
        /\ beacon' = register_validator(beacon, address)
        /\ UNCHANGED <<tm, num, registry, node, sm>>

BeaconProcessVrfProof ==
    \E round \in BeaconRoundsSent(beacon) : \E msg \in BeaconMsgs(round) :
        /\ BeaconWithin(process_vrf_proof(beacon, msg).st)
        /\ beacon' = process_vrf_proof(beacon, msg).st
        /\ UNCHANGED <<tm, num, registry, node, sm>>

BeaconProcessPartialSignature ==
    \E round \in BeaconRoundsSent(beacon) : \E msg \in BeaconMsgs(round) :
        /\ BeaconWithin(process_partial_signature(beacon, msg).st)
        /\ beacon' = process_partial_signature(beacon, msg).st
        /\ UNCHANGED <<tm, num, registry, node, sm>>

BeaconFinalizeRound ==
    /\ BeaconWithin(finalize_round(beacon).st)
    /\ beacon' = finalize_round(beacon).st
    /\ UNCHANGED <<tm, num, registry, node, sm>>

BeaconAddMessage ==
    \E round \in BeaconRoundsSent(beacon) : \E msg \in BeaconMsgs(round) :
        /\ BeaconWithin(beacon_add_message(beacon, msg))
        /\ beacon' = beacon_add_message(beacon, msg)
        /\ UNCHANGED <<tm, num, registry, node, sm>>

NextBeacon ==
    \/ BeaconCreate
    \/ BeaconRegisterValidator
    \/ BeaconProcessVrfProof
    \/ BeaconProcessPartialSignature
    \/ BeaconFinalizeRound
    \/ BeaconAddMessage

SpecBeacon == Init /\ [][NextBeacon]_vars

\* C31: finalize_round() returns an error whenever fewer than threshold VRF
\* proofs or fewer than threshold partial signatures are pending for
\* current_round, and then current_round, the finalized rounds and the
\* pending proof and signature tables are unchanged.
C31_FinalizeBelowThresholdIsError ==
    (vrf_count(beacon) < beacon.threshold \/ partial_sig_count(beacon) < beacon.threshold)
        => /\ finalize_round(beacon).val = "Err"
           /\ finalize_round(beacon).st = beacon

\* both validators' proofs are pending, one partial signature too few
C31_Witness ==
    /\ beacon.threshold = 2
    /\ vrf_count(beacon) = 2
    /\ NoRepeats(ProofValidators(beacon.pending_vrf_proofs[beacon.current_round]))
    /\ partial_sig_count(beacon) = 1

\* C40: a round is finalized only when at least threshold distinct
\* registered validators have each submitted a VRF proof and a partial
\* signature for it: repeated proofs of one validator count once, and the
\* participants of a finalized round never name a validator twice.
C40_FinalizedByDistinctValidators ==
    \A round \in DOMAIN beacon.rounds :
        LET r == beacon.rounds[round]
        IN /\ NoRepeats(r.participants)
           /\ Cardinality(Range(r.participants) \cap DOMAIN r.threshold_signature
                              \cap DOMAIN beacon.validators) >= beacon.threshold

(***************************************************************************)
(* SpecChat: one registered ChatroomObject receives chatroom messages of    *)
(* three keys about two chatrooms through the registry                      *)
(***************************************************************************)
\* the most messages stored in the chatrooms of the object together
MaxChatMessages == 3

ChatKeys == {"k1", "k2", "k3"}

ChatroomNames == {"room", "lobby"}

\* the messages sent: each key creates each chatroom, asks to join it, posts
\* to it and accepts each other key into it, with its own signature; k2 also
\* posts with a signature that does not verify against its key, and with a
\* timestamp that is not recent
ChatInputs ==
    {ChatroomMsg("CREATE_CHATROOM", name, k, None, None, "recent", SigOf(k)) :
        name \in ChatroomNames, k \in {"k1", "k2"}}
    \cup {ChatroomMsg("REQUEST_JOIN", "room", "k3", None, None, "recent", SigOf("k3"))}
    \cup {ChatroomMsg("ACCEPT_MEMBER", name, k, Some(requester), None, "recent", SigOf(k)) :
            name \in ChatroomNames, k \in ChatKeys, requester \in {"k2", "k3"}}
    \cup {ChatroomMsg("POST_MESSAGE", name, k, None, Some("hi"), "recent", SigOf(k)) :
            name \in ChatroomNames, k \in ChatKeys}
    \cup {ChatroomMsg("POST_MESSAGE", "room", "k2", None, Some("hi"), "recent", SigOf("k1")),
          ChatroomMsg("POST_MESSAGE", "room", "k2", None, Some("hi"), "old", SigOf("k2"))}

\* the number of messages stored in the chatrooms `names` of the object
RECURSIVE StoredMessages(_, _)
StoredMessages(c, names) ==
    IF names = {} THEN 0
    ELSE LET name == CHOOSE n \in names : TRUE
         IN Len(c.chatrooms[name].messages) + StoredMessages(c, names \ {name})

\* the registered ChatroomObject objects
ChatIds(r) == {id \in DOMAIN r.objects : r.objects[id].type_name = "ChatroomObject"}

ChatWithin(r) ==
    \A id \in ChatIds(r) :
        StoredMessages(r.objects[id].st, DOMAIN r.objects[id].st.chatrooms) <= MaxChatMessages

ChatRegister ==
    /\ registry.objects = <<>>
    /\ registry' = register(registry, "o1", NewObject("ChatroomObject"))
    /\ UNCHANGED <<tm, num, node, sm, beacon>>

ChatProcessMessage ==
    \E m \in ChatInputs :
        \E r \in process_message(registry, SharedMessage(4, JsonChat(m))) :
            /\ registry.objects # <<>>
            /\ ChatWithin(r.st)
            /\ registry' = r.st
            /\ UNCHANGED <<tm, num, node, sm, beacon>>

NextChat == ChatRegister \/ ChatProcessMessage

SpecChat == Init /\ [][NextChat]_vars

\* ACCEPT_MEMBER of `key`, sent by the admin of the chatroom, is among the
\* first `n` stored messages of the chatroom
AcceptedWithin(room, key, n) ==
    \E j \in 1..n :
        /\ room.messages[j].message_type = "ACCEPT_MEMBER"
        /\ room.messages[j].public_key_pem = room.admin
        /\ room.messages[j].requester_key_pem = Some(key)

\* C32: every stored POST_MESSAGE carries a signature of its sender, and its
\* sender was a member of the chatroom when the message was applied; a member
\* is the creator of the chatroom, who is its admin, or was accepted by an
\* ACCEPT_MEMBER of that chatroom's admin; a post of a key that is no member
\* and an accept of a key that is not the admin leave the object unchanged.
C32_MembershipEnforced ==
    \A id \in ChatIds(registry) :
        LET c == registry.objects[id].st
        IN /\ \A name \in DOMAIN c.chatrooms :
                LET room == c.chatrooms[name]
                IN /\ Contains(room.members, room.admin)
                   /\ \A key \in Range(room.members) :
                         key = room.admin \/ AcceptedWithin(room, key, Len(room.messages))
                   /\ \A i \in 1..Len(room.messages) :
                         room.messages[i].message_type = "POST_MESSAGE" =>
                            /\ Verifies(room.messages[i].public_key_pem,
                                        room.messages[i].signature)
                            /\ \/ room.messages[i].public_key_pem = room.admin
                               \/ AcceptedWithin(room, room.messages[i].public_key_pem, i - 1)
           /\ \A m \in ChatInputs :
                LET known == m.chatroom_name \in DOMAIN c.chatrooms
                    after == chat_add_message(c, SharedMessage(4, JsonChat(m))).st
                IN /\ (/\ m.message_type = "POST_MESSAGE"
                       /\ ~(known /\ Contains(c.chatrooms[m.chatroom_name].members,
                                               m.public_key_pem)))
                        => after = c
                   /\ (/\ m.message_type = "ACCEPT_MEMBER"
                       /\ ~(known /\ c.chatrooms[m.chatroom_name].admin = m.public_key_pem))
                        => after = c

\* k1 created "room" and accepted k2, whose post is stored; k3 is no member
C32_Witness ==
    \E id \in ChatIds(registry) :
        LET c == registry.objects[id].st
        IN /\ "room" \in DOMAIN c.chatrooms
           /\ c.chatrooms["room"].admin = "k1"
           /\ c.chatrooms["room"].members = <<"k1", "k2">>
           /\ Len(c.chatrooms["room"].messages) = 2
           /\ c.chatrooms["room"].messages[2].message_type = "POST_MESSAGE"
           /\ c.chatrooms["room"].messages[2].public_key_pem = "k2"

(***************************************************************************)
(* SpecWord: validators whose voting powers reach half the range of a u64   *)
(* are registered and precommit at the current (height, round)              *)
(***************************************************************************)
\* the voting powers registered: 1, a third of the range of a u64 rounded up,
\* and half the range
WordPowers == {1, (U64 \div 3) + 1, U64 \div 2}

WordAddValidator ==
    \E a \in {"v1", "v2"}, p \in WordPowers : AddValidator(a, p)

WordProcessPrecommit ==
    \E v \in {"v1", "v2"}, bh \in OptionHashes :
        ProcessPrecommit(
            PrecommitMsg(tm.current_height, tm.current_round, bh, v, SigOf(v)))

WordAddMessage ==
    \E v \in {"v1", "v2"}, h \in Hashes :
        AddMessage(PrecommitMsg(tm.current_height, tm.current_round, Some(h), v, SigOf(v)))

NextWord == WordAddValidator \/ WordProcessPrecommit \/ WordAddMessage

SpecWord == Init /\ [][NextWord]_vars

\* C38: the quorum decision is free of integer overflow for all u64 voting
\* powers: total_voting_power(), total_voting_power()*2, every tally and every
\* tally*3 equal their mathematical values, so can_commit never panics and
\* returns a block hash exactly when that hash holds the quorum.
C38_QuorumFreeOfOverflow ==
    /\ total_voting_power(tm) = TotalActivePower(tm)
    /\ wrapping(total_voting_power(tm) * 2) = TotalActivePower(tm) * 2
    /\ \A k \in DOMAIN vote_counts(tm, CurrentPrecommits(tm)) :
          /\ vote_counts(tm, CurrentPrecommits(tm))[k] = PrecommitPower(tm, k)
          /\ wrapping(vote_counts(tm, CurrentPrecommits(tm))[k] * 3)
                = PrecommitPower(tm, k) * 3
          /\ has_majority(tm, vote_counts(tm, CurrentPrecommits(tm))[k])
                <=> HoldsQuorum(tm, k)
    /\ Panic \notin can_commit(tm)
    /\ \A h \in Hashes : (Some(h) \in can_commit(tm)) <=> HoldsQuorum(tm, Some(h))

\* C35: at most one block hash satisfies the quorum inequality, and
\* can_commit() has one value for given validator and precommit tables,
\* whatever the iteration order of the vote and tally maps (a panic of the
\* build with overflow checks is not counted as a second value).
C35_CanCommitDeterministic ==
    /\ Cardinality({h \in Hashes :
                      /\ Some(h) \in DOMAIN vote_counts(tm, CurrentPrecommits(tm))
                      /\ has_majority(tm, vote_counts(tm, CurrentPrecommits(tm))[Some(h)])})
          <= 1
    /\ Cardinality(can_commit(tm) \ {Panic}) = 1

(***************************************************************************)
(* Claims about the block list, the commit moment and the round of the      *)
(* consensus object                                                         *)
(***************************************************************************)
\* C33: block heights are consecutive and unique in every state reachable
\* through the operations, reset() included: the block at index i (genesis
\* at index 0) has height i, and current_height equals the number of blocks.
C33_HeightsConsecutive ==
    /\ \A i \in 1..Len(tm.blocks) : tm.blocks[i].height = i - 1
    /\ tm.current_height = Len(tm.blocks)

\* some block hash holds more than two thirds of the active power in the
\* precommits recorded at the object's (height, round)
QuorumReached(s) == \E h \in Hashes : HoldsQuorum(s, Some(h))

\* the object at the moment add_message(m) first commits, if it does: after
\* the vote or the validators of m were recorded
BeforeCommit(s, m) == IF m.type = "BlockCommit" THEN s ELSE process_arm(s, m).st

\* C34: whatever message is dispatched, current_height advances and a block
\* is appended only when that block's hash holds a strict supermajority of
\* the precommit power at the current (height, round); no message, a
\* BlockCommit in particular, commits without that quorum.
C34_CommitOnlyOnQuorum ==
    \A m \in TendermintMsgs :
        \A r \in add_message(tm, m) :
            (r.st.blocks # tm.blocks \/ r.st.current_height # tm.current_height) =>
                /\ Len(r.st.blocks) = Len(tm.blocks) + 1
                /\ r.st.current_height = tm.current_height + 1
                /\ HoldsQuorum(BeforeCommit(tm, m), Some(Last(r.st.blocks).hash))

\* current_round is 0 and state is Propose
AtRoundZero(s) == s.current_round = 0 /\ s.state = "Propose"

\* C36: in every state reachable through process_proposal, process_prevote,
\* process_precommit, commit_block, add_validator, add_message and reset,
\* current_round is 0 and state is Propose, and an operation that no
\* quorum-completing precommit accompanies leaves the height, the round and
\* the digest as they were.
C36_RoundZeroAndStalled ==
    /\ AtRoundZero(tm)
    /\ \A m \in TendermintMsgs :
          /\ \A r \in {process_proposal(tm, m), process_prevote(tm, m), process_precommit(tm, m)} :
                /\ AtRoundZero(r.st)
                /\ get_latest_digest(r.st) = get_latest_digest(tm)
          /\ \A r \in add_message(tm, m) :
                /\ AtRoundZero(r.st)
                /\ ~QuorumReached(BeforeCommit(tm, m)) =>
                      get_latest_digest(r.st) = get_latest_digest(tm)
    /\ \A a \in Addresses, p \in VotingPowers :
          /\ AtRoundZero(add_validator(tm, a, PublicKeyOf(a), p))
          /\ get_latest_digest(add_validator(tm, a, PublicKeyOf(a), p)) = get_latest_digest(tm)
    /\ \A h \in Hashes :
          /\ AtRoundZero(commit_block(tm, h).st)
          /\ ~QuorumReached(tm) =>
                get_latest_digest(commit_block(tm, h).st) = get_latest_digest(tm)
    /\ AtRoundZero(reset(tm))
    /\ ~QuorumReached(tm) => get_latest_digest(reset(tm)) = get_latest_digest(tm)

\* the part of C36 about the round and the phase alone
C36_RoundZeroAlone ==
    /\ AtRoundZero(tm)
    /\ \A m \in TendermintMsgs : \A r \in add_message(tm, m) : AtRoundZero(r.st)
    /\ \A h \in Hashes : AtRoundZero(commit_block(tm, h).st)
    /\ AtRoundZero(reset(tm))

(***************************************************************************)
(* SpecFrame: two validators; proposals and prevotes are given to           *)
(* process_proposal and process_prevote, precommits to add_message, which   *)
(* commits on a quorum                                                      *)
(***************************************************************************)
\* the proposals of v1 for the position (height, round)
FrameProposals(height, round) ==
    {ProposalMsg(height, round, h, "v1", SigOf("v1")) : h \in Hashes}

\* the prevotes of v1 and v2, nil or for H1, for the position
FramePrevotes(height, round) ==
    {PrevoteMsg(height, round, bh, v, SigOf(v)) :
        bh \in {None, Some("H1")}, v \in {"v1", "v2"}}

FrameMsgs(height, round) == FrameProposals(height, round) \cup FramePrevotes(height, round)

FrameAddValidator == \E a \in {"v1", "v2"} : AddValidator(a, 100)

FrameProcessProposal ==
    \E m \in FrameProposals(tm.current_height, tm.current_round) : ProcessProposal(m)

FrameProcessPrevote ==
    \E m \in FramePrevotes(tm.current_height, tm.current_round) : ProcessPrevote(m)

FrameAddMessage ==
    \E v \in {"v1", "v2"}, h \in Hashes :
        AddMessage(PrecommitMsg(tm.current_height, tm.current_round, Some(h), v, SigOf(v)))

NextFrame ==
    FrameAddValidator \/ FrameProcessProposal \/ FrameProcessPrevote \/ FrameAddMessage

SpecFrame == Init /\ [][NextFrame]_vars

\* C37: process_proposal and process_prevote, whether they accept the message
\* or not, leave precommits, validators, blocks, current_height, current_round
\* and state unchanged, so can_commit() returns the same before and after
\* them; a block can be committed at a height for which no proposal and no
\* prevote was recorded.
C37_ProposalAndPrevoteFrame ==
    \A p \in {<<tm.current_height, tm.current_round>>, <<tm.current_height + 1, 0>>} :
        \A m \in FrameMsgs(p[1], p[2]) :
            \A r \in {process_proposal(tm, m), process_prevote(tm, m)} :
                /\ r.st.precommits = tm.precommits
                /\ r.st.validators = tm.validators
                /\ r.st.blocks = tm.blocks
                /\ r.st.current_height = tm.current_height
                /\ r.st.current_round = tm.current_round
                /\ r.st.state = tm.state
                /\ can_commit(r.st) = can_commit(tm)

\* the block of height 1 was committed on the precommits alone: no proposal
\* and no prevote for height 1 is in the log; a proposal for height 2 has
\* been accepted since
C37_Witness ==
    /\ Len(tm.blocks) = 2
    /\ tm.blocks[2].height = 1
    /\ tm.current_height = 2
    /\ \A i \in 1..Len(tm.messages) :
          tm.messages[i].height = 1 => tm.messages[i].type = "Precommit"
    /\ \E i \in 1..Len(tm.messages) : tm.messages[i].height = 1
    /\ <<2, 0>> \in DOMAIN tm.proposals

(***************************************************************************)
(* SpecSum: a SimpleSharedNumber receives integers up to the ends of the    *)
(* i64 range through the registry only, and is reset                        *)
(***************************************************************************)
\* 1, -1, i64::MAX and i64::MIN
SumPayloads == {1, 0 - 1, U64 \div 2 - 1, 0 - U64 \div 2}

\* two messages (two ids) for each payload, and one whose data is no integer
SumMsgs ==
    {SharedMessage(id, JsonInt(v)) : id \in {1, 2}, v \in SumPayloads}
        \cup {SharedMessage(1, JsonFloat(1))}

\* ApplicationObjectRegistry::process_message for a registry holding the one
\* object
SumDispatch ==
    \E m \in SumMsgs :
        \E n \in (IF number_is_valid(num, m)
                  THEN number_add_message_outcomes(num, m) ELSE {num}) :
            /\ NumberWithin(n)
            /\ num' = n
            /\ UNCHANGED <<tm, registry, node, sm, beacon>>

NextSum == SumDispatch \/ NumberReset

SpecSum == Init /\ [][NextSum]_vars

RECURSIVE SumOf(_)
\* the sum of a set of integers
SumOf(values) ==
    IF values = {} THEN 0
    ELSE LET v == CHOOSE x \in values : TRUE IN v + SumOf(values \ {v})

\* the integer payloads of the stored messages, in their order
StoredPayloads(n) == [i \in 1..Len(n.messages) |-> as_i64(n.messages[i].data)]

\* C39: for a SimpleSharedNumber fed through registry dispatch only, number
\* is the sum of the distinct integer payloads applied since creation or the
\* last reset, each payload stored once, and the number of stored messages is
\* the number of remembered payload hashes.
C39_NumberIsSumOfDistinctPayloads ==
    /\ NoRepeats(StoredPayloads(num))
    /\ num.number = SumOf(Range(StoredPayloads(num)))
    /\ Len(num.messages) = Cardinality(num.seen_hashes)

====
